---- MODULE Spec2Model ----
(***************************************************************************)
(* Inverted index of github.com/polisgo2020/search-tariel-x.               *)
(*                                                                         *)
(* The module models                                                       *)
(*   - the ingestion pipeline: AddSource producers, the unbuffered channel *)
(*     chanIn and the listen goroutine (index/index.go);                   *)
(*   - the in-memory index guarded by one sync.RWMutex: add, Search,       *)
(*     Encode and Decode (index/index.go);                                 *)
(*   - the engine-based facade Search with ScoreByCount and the            *)
(*     PostgreSQL engine's Get (index/db.go).                              *)
(*   - the PostgreSQL engine: Add with getToken and getDocument, the       *)
(*     flush goroutine and Get (index/db.go);                              *)
(*   - the facade's pipeline over an IndexEngine, with a chanIn of any     *)
(*     capacity and its close.                                             *)
(***************************************************************************)
EXTENDS Integers, Sequences, FiniteSets, TLC

(***************************************************************************)
(* Bounds of the model.                                                    *)
(***************************************************************************)
\* longest document text, in scanned words
MaxWords == 2

\* the goroutines calling AddSource (one call each)
Producers == {"p1", "p2"}

\* document names handed to AddSource
DocNames == {"file1", "file2"}

\* the words bufio.ScanWords can deliver
RawWords == {"apple", "banana,", "the"}

Texts == UNION {[1..n -> RawWords] : n \in 0..MaxWords}

\* calls of add made directly on the index
MaxAdds == 3

\* the positions such calls pass
Positions == {0, 1}

\* longest query, in whitespace-separated words
MaxQuery == 2

Queries == UNION {[1..n -> RawWords] : n \in 0..MaxQuery}

\* the words of the queries put to the database engine
QueryWords == RawWords \cup {"orange", "wi-fi"}

FacadeQueries == UNION {[1..n -> QueryWords] : n \in 0..MaxQuery}

\* most rows of the table occurrences
MaxRows == 3

(***************************************************************************)
(* Generic helpers on maps (functions with a finite domain).               *)
(***************************************************************************)
EmptyMap == <<>>

Put(m, k, v) == (k :> v) @@ m

Range(s) == {s[k] : k \in DOMAIN s}

RECURSIVE SumLens(_, _)
SumLens(m, keys) ==
    IF keys = {} THEN 0
    ELSE LET k == CHOOSE x \in keys : TRUE
         IN  Len(m[k]) + SumLens(m, keys \ {k})

RemoveAt(s, k) == [j \in 1..(Len(s) - 1) |-> IF j < k THEN s[j] ELSE s[j + 1]]

(***************************************************************************)
(* Normalizer: strings.TrimFunc(!unicode.IsLetter), the Porter stemmer and *)
(* the stop-word list, on the vocabulary of the model.                     *)
(***************************************************************************)
TrimNonLetters(w) ==
    CASE w = "banana," -> "banana"
      [] w = "123" -> ""
      [] OTHER -> w

StemString(w) ==
    CASE w = "apple" -> "appl"
      [] w = "apples" -> "appl"
      [] w = "raspberry" -> "raspberri"
      [] w = "orange" -> "orang"
      [] OTHER -> w

\* the list holds English words; the empty string is not one of them
IsStopWord(t) == t \in {"the", "an"}

\* the maximal runs of letters of one word
LetterRuns(w) ==
    CASE w = "banana," -> <<"banana">>
      [] w = "wi-fi" -> <<"wi", "fi">>
      [] w = "123" -> <<>>
      [] OTHER -> <<w>>

\* strings.FieldsFunc(query, !unicode.IsLetter) on a query given by its words
RECURSIVE FieldsFunc(_)
FieldsFunc(query) ==
    IF query = <<>> THEN <<>> ELSE LetterRuns(Head(query)) \o FieldsFunc(Tail(query))

prepare(rawToken) == StemString(TrimNonLetters(rawToken))

(***************************************************************************)
(* State.                                                                  *)
(***************************************************************************)
VARIABLES
    \* ingestion pipeline (AddSource, chanIn, listen)
    pc,         \* AddSource call of each producer: "idle", "scan", "done"
    name,       \* its source name
    text,       \* the words of its reader
    idx,        \* index of the next word the scanner delivers
    position,   \* its local variable position
    inAdd,      \* calls of add the listener has made that have not returned
    sent,       \* history: the values sent on chanIn, in send order
    written,    \* history: the occurrences appended by add, in write order
    \* in-memory index
    Index,      \* Index.Index: token -> (document name -> positions)
    Sources,    \* Index.Sources: document name -> Source
    srcAddr,    \* Index.Sources: document name -> the address the entry holds
    wlocked,    \* Index.m is held by a writer
    rholders,   \* the readers holding Index.m
    \* one call of Search on the in-memory index
    sPc,        \* "idle", "loop", "iterate", "done"
    sRaw,       \* rawTokens
    sI,         \* index of the raw token the loop is at
    sTok,       \* the token whose postings map the call holds a reference to
    sTokens,    \* tokens
    sItems,     \* items
    sResult,    \* what the call returned
    fatal,      \* the runtime aborted the process on a detected map race
    \* one call of Encode and one of Decode
    ePc,        \* "idle", "index", "sources", "done"
    encoded,    \* the encoder's output
    encAt,      \* history: the index when Encode took the lock
    dPc,        \* "idle", "done"
    decoded,    \* the index Decode returned
    \* the facade Search over the PostgreSQL engine
    pgTokens,       \* table tokens: the token of the row with id 1, 2, ...
    pgDocuments,    \* table documents: the name of the row with id 1, 2, ...
    pgOccurrences,  \* table occurrences: a bag of rows
    fPc,            \* "idle", "got", "done"
    fQuery,         \* query, as its whitespace-separated words
    fTokens,        \* tokens
    fGot,           \* what engine.Get returned
    fItems,         \* items, as handed to ScoreByCount
    fResult,        \* what Search returned
    \* the PostgreSQL engine (DbIndex)
    tokensCache,    \* DbIndex.tokensCache: token -> id
    documentsCache, \* DbIndex.documentsCache: name -> id
    insertList,     \* flush: the occurrences received and not yet inserted
    dbCall,         \* the call of DbIndex.Add each caller is in
    getCall,        \* one call of DbIndex.Get (buffered: insertList at that time)
    created,        \* history: the rows inserted into tokens and documents
    addLog,         \* history: the occurrences Add has sent on insertC
    batches,        \* history: the bulk inserts flush has attempted (upto: the
                    \* number of occurrences Add had sent by then)
    \* the facade's pipeline over an IndexEngine
    chanCap,        \* the capacity chanIn was made with
    queue,          \* the values buffered in chanIn
    closed,         \* chanIn has been closed
    ret,            \* what the AddSource call of each producer returned
    late,           \* history: the producers that sent on the closed chanIn
    lPc,            \* the listen goroutine: "run", "exited"
    panicked,       \* a goroutine panicked: the process is gone
    engineLog,      \* history: the calls of engine.Add and what they returned
    \* the build command
    bPc,            \* build: "start", "wait", "returned"
    bRet,           \* what build returned
    bLog,           \* the goroutines that logged "cannot read file"
    \* the flush goroutine of DbIndex
    flPc            \* "select" (at its select statement), "insert" (in the bulk insert)

pipeVars == <<pc, name, text, idx, position, inAdd, sent, written>>

memVars == <<Index, Sources, srcAddr, wlocked, rholders>>

searchVars == <<sPc, sRaw, sI, sTok, sTokens, sItems, sResult, fatal>>

encodeVars == <<ePc, encoded, encAt, dPc, decoded>>

facadeVars == <<pgTokens, pgDocuments, pgOccurrences, fPc, fQuery, fTokens, fGot, fItems, fResult>>

dbVars == <<tokensCache, documentsCache, insertList, dbCall, getCall, created, addLog, batches>>

shutVars == <<chanCap, queue, closed, ret, late, lPc, panicked, engineLog>>

buildVars == <<bPc, bRet, bLog>>

vars == <<pipeVars, memVars, searchVars, encodeVars, facadeVars, dbVars, shutVars, buildVars, flPc>>

(***************************************************************************)
(* NewIndex: empty maps, an unbuffered channel and one listener.           *)
(***************************************************************************)
NewIndex ==
    /\ Index = EmptyMap
    /\ Sources = EmptyMap
    /\ srcAddr = EmptyMap
    /\ inAdd = <<>>
    /\ wlocked = FALSE
    /\ rholders = {}

InitProducers ==
    /\ pc = [p \in Producers |-> "idle"]
    /\ name = [p \in Producers |-> ""]
    /\ text = [p \in Producers |-> <<>>]
    /\ idx = [p \in Producers |-> 1]
    /\ position = [p \in Producers |-> 0]
    /\ sent = <<>>
    /\ written = <<>>

InitSearch ==
    /\ sPc = "idle"
    /\ sRaw = <<>>
    /\ sI = 1
    /\ sTok = ""
    /\ sTokens = <<>>
    /\ sItems = EmptyMap
    /\ sResult = <<>>
    /\ fatal = FALSE

InitEncode ==
    /\ ePc = "idle"
    /\ encoded = <<>>
    /\ encAt = <<>>
    /\ dPc = "idle"
    /\ decoded = <<>>

\* the build command has not been run
InitBuild ==
    /\ bPc = "start"
    /\ bRet = "none"
    /\ bLog = {}

InitFacade ==
    /\ pgTokens = EmptyMap
    /\ pgDocuments = EmptyMap
    /\ pgOccurrences = EmptyMap
    /\ fPc = "idle"
    /\ fQuery = <<>>
    /\ fTokens = <<>>
    /\ fGot = <<>>
    /\ fItems = EmptyMap
    /\ fResult = <<>>

\* the goroutines calling DbIndex.Add
DbCallers == {"c1", "c2"}

\* a caller between two calls of Add, after n calls
IdleCall == [at |-> "idle", n |-> 0, err |-> FALSE]

\* NewDbIndex: empty caches, an unbuffered insertC and the flush goroutine
NewDbIndex ==
    /\ tokensCache = EmptyMap
    /\ documentsCache = EmptyMap
    /\ insertList = <<>>
    /\ dbCall = [c \in DbCallers |-> IdleCall]
    /\ getCall = [at |-> "idle"]
    /\ created = <<>>
    /\ addLog = <<>>
    /\ batches = <<>>
    /\ flPc = "select"

\* the channel is open and the listener runs (go i.listen())
InitListen ==
    /\ chanCap = 0
    /\ queue = <<>>
    /\ closed = FALSE
    /\ ret = [p \in Producers |-> "none"]
    /\ late = {}
    /\ lPc = "run"
    /\ panicked = FALSE
    /\ engineLog = <<>>

Init == NewIndex /\ InitProducers /\ InitSearch /\ InitEncode /\ InitBuild /\ InitFacade /\ NewDbIndex /\ InitListen

(***************************************************************************)
(* AddSource.                                                              *)
(***************************************************************************)
\* the call, on a reader over one of texts:
\* source := Source{Name: name}; var position int
AddSourceOf(p, texts) ==
    /\ pc[p] = "idle"
    /\ \E n \in DocNames, t \in texts :
          /\ name' = [name EXCEPT ![p] = n]
          /\ text' = [text EXCEPT ![p] = t]
    /\ pc' = [pc EXCEPT ![p] = "scan"]
    /\ idx' = [idx EXCEPT ![p] = 1]
    /\ position' = [position EXCEPT ![p] = 0]
    /\ UNCHANGED <<inAdd, sent, written, memVars, searchVars, encodeVars, buildVars, flPc, facadeVars, dbVars, shutVars>>

AddSource(p) == AddSourceOf(p, Texts)

\* scanner.Scan() delivered a word
Scanned(p) == pc[p] = "scan" /\ idx[p] <= Len(text[p])

CurToken(p) == prepare(text[p][idx[p]])

\* a filter that lets a stop word use up a position
SkipStopWordCounting(p) ==
    /\ Scanned(p)
    /\ IsStopWord(CurToken(p))
    /\ idx' = [idx EXCEPT ![p] = idx[p] + 1]
    /\ position' = [position EXCEPT ![p] = position[p] + 1]
    /\ UNCHANGED <<pc, name, text, inAdd, sent, written>>
    /\ UNCHANGED <<memVars, searchVars, encodeVars, buildVars, flPc, facadeVars, dbVars, shutVars>>

\* if stopwords.IsStopWord(token) { continue }
SkipStopWord(p) ==
    /\ Scanned(p)
    /\ IsStopWord(CurToken(p))
    /\ idx' = [idx EXCEPT ![p] = idx[p] + 1]
    /\ UNCHANGED <<pc, name, text, position, inAdd, sent, written>>
    /\ UNCHANGED <<memVars, searchVars, encodeVars, buildVars, flPc, facadeVars, dbVars, shutVars>>

\* the value sent on chanIn
NewToken(p) ==
    [source |-> [Name |-> name[p]], token |-> CurToken(p), position |-> position[p], by |-> p]

NextPositionTwice(pos) == pos + 2

NextPositionStuck(pos) == pos

\* position++
NextPosition(pos) == pos + 1

ListenAsync == TRUE

\* for t := range i.chanIn { i.add(...) }: the listener is back at the receive
\* only when the add it called has returned
ListenReady == inAdd = <<>>

\* a send that gives up when the listener is busy instead of blocking
SendOrDrop(p) ==
    /\ Scanned(p)
    /\ ~IsStopWord(CurToken(p))
    /\ inAdd' = IF ListenReady THEN Append(inAdd, [t |-> NewToken(p), at |-> "lock"]) ELSE inAdd
    /\ idx' = [idx EXCEPT ![p] = idx[p] + 1]
    /\ position' = [position EXCEPT ![p] = NextPosition(position[p])]
    /\ sent' = Append(sent, NewToken(p))
    /\ UNCHANGED <<pc, name, text, written, memVars, searchVars, encodeVars, buildVars, flPc, facadeVars, dbVars, shutVars>>

\* i.chanIn <- newToken{...}; position++
\* chanIn is unbuffered: the send completes when the listener receives, and the
\* listener then calls add with the received value.
Send(p) ==
    /\ Scanned(p)
    /\ ~IsStopWord(CurToken(p))
    /\ chanCap = 0
    /\ ~closed
    /\ ListenReady
    /\ inAdd' = Append(inAdd, [t |-> NewToken(p), at |-> "lock"])
    /\ idx' = [idx EXCEPT ![p] = idx[p] + 1]
    /\ position' = [position EXCEPT ![p] = NextPosition(position[p])]
    /\ sent' = Append(sent, NewToken(p))
    /\ UNCHANGED <<pc, name, text, written, memVars, searchVars, encodeVars, buildVars, flPc, facadeVars, dbVars, shutVars>>

\* the scanner is exhausted: return nil
Return(p) ==
    /\ pc[p] = "scan"
    /\ idx[p] > Len(text[p])
    /\ pc' = [pc EXCEPT ![p] = "done"]
    /\ ret' = [ret EXCEPT ![p] = "nil"]
    /\ UNCHANGED <<name, text, idx, position, inAdd, sent, written>>
    /\ UNCHANGED <<chanCap, queue, closed, late, lPc, panicked, engineLog>>
    /\ UNCHANGED <<memVars, searchVars, encodeVars, buildVars, flPc, facadeVars, dbVars>>

(***************************************************************************)
(* add, called by the listener.                                            *)
(***************************************************************************)
\* i.m.Lock()
AddLock(k) ==
    /\ k \in DOMAIN inAdd
    /\ inAdd[k].at = "lock"
    /\ ~wlocked
    /\ rholders = {}
    /\ wlocked' = TRUE
    /\ inAdd' = [inAdd EXCEPT ![k].at = "register"]
    /\ UNCHANGED <<pc, name, text, idx, position, sent, written, Index, Sources, srcAddr, rholders>>
    /\ UNCHANGED <<searchVars, encodeVars, buildVars, flPc, facadeVars, dbVars, shutVars>>

\* an add that does not register the source
RegisterSourceSkipped(srcs, source) == srcs

\* if _, ok := i.Sources[source.Name]; !ok { i.Sources[source.Name] = &source }
RegisterSource(srcs, source) ==
    IF source.Name \in DOMAIN srcs THEN srcs ELSE Put(srcs, source.Name, source)

\* &source: the parameter of this call of add, a variable of its own; the calls
\* of add are numbered in the order they take the lock
AddrOfSource == Len(written) + 1

\* a registration that stores &source on every call
RegisterAddrAlways(addrs, source, addr) == Put(addrs, source.Name, addr)

\* the pointer the statement above leaves in i.Sources[source.Name]
RegisterAddr(addrs, source, addr) ==
    IF source.Name \in DOMAIN addrs THEN addrs ELSE Put(addrs, source.Name, addr)

AddRegister(k) ==
    /\ k \in DOMAIN inAdd
    /\ inAdd[k].at = "register"
    /\ Sources' = RegisterSource(Sources, inAdd[k].t.source)
    /\ srcAddr' = RegisterAddr(srcAddr, inAdd[k].t.source, AddrOfSource)
    /\ inAdd' = [inAdd EXCEPT ![k].at = "append"]
    /\ UNCHANGED <<pc, name, text, idx, position, sent, written, Index, wlocked, rholders>>
    /\ UNCHANGED <<searchVars, encodeVars, buildVars, flPc, facadeVars, dbVars, shutVars>>

\* the postings of token: i.Index[token], created empty when missing
Postings(ix, token) == IF token \in DOMAIN ix THEN ix[token] ELSE EmptyMap

\* the position list of (token, document), created empty when missing
PositionsOf(ix, token, doc) ==
    IF doc \in DOMAIN Postings(ix, token) THEN Postings(ix, token)[doc] ELSE <<>>

\* an add that puts the new position in front of the list
PrependPosition(ix, token, doc, pos) ==
    Put(ix, token, Put(Postings(ix, token), doc, <<pos>> \o PositionsOf(ix, token, doc)))

\* an add that stores the position instead of appending it
OverwritePosition(ix, token, doc, pos) ==
    Put(ix, token, Put(Postings(ix, token), doc, <<pos>>))

\* i.Index[token][source.Name] = append(i.Index[token][source.Name], position)
AppendPosition(ix, token, doc, pos) ==
    Put(ix, token, Put(Postings(ix, token), doc, Append(PositionsOf(ix, token, doc), pos)))

\* the rest of add, and the deferred i.m.Unlock()
AddAppend(k) ==
    /\ k \in DOMAIN inAdd
    /\ inAdd[k].at = "append"
    /\ Index' = AppendPosition(Index, inAdd[k].t.token, inAdd[k].t.source.Name, inAdd[k].t.position)
    /\ written' = Append(written, inAdd[k].t)
    /\ wlocked' = FALSE
    /\ inAdd' = RemoveAt(inAdd, k)
    /\ UNCHANGED <<pc, name, text, idx, position, sent, Sources, srcAddr, rholders>>
    /\ UNCHANGED <<searchVars, encodeVars, buildVars, flPc, facadeVars, dbVars, shutVars>>

(***************************************************************************)
(* The ingestion pipeline with the in-memory index.                        *)
(***************************************************************************)
Next ==
    \/ \E p \in Producers : AddSource(p)
    \/ \E p \in Producers : SkipStopWord(p)
    \/ \E p \in Producers : Send(p)
    \/ \E p \in Producers : Return(p)
    \/ \E k \in DOMAIN inAdd : AddLock(k)
    \/ \E k \in DOMAIN inAdd : AddRegister(k)
    \/ \E k \in DOMAIN inAdd : AddAppend(k)

Spec == Init /\ [][Next]_vars


(***************************************************************************)
(* ScoreByCount.                                                           *)
(***************************************************************************)
\* the documents that pass: if item.count < len(tokens) { continue }
Scored(items, tokens) == {src \in DOMAIN items : ~(items[src].count < Len(tokens))}

ScoreOfTokens(item) == Cardinality(DOMAIN item.occurrences)

\* score += len(positions) over item.occurrences
ScoreOf(item) == SumLens(item.occurrences, DOMAIN item.occurrences)

LessAscending(a, b) == a.Score < b.Score

\* the less function given to sort.Slice
Less(a, b) == a.Score > b.Score

\* the outcomes of sort.Slice: the orders of the results in which no element
\* is less than its predecessor (the order of equal scores is not fixed)
SortedResults(results) ==
    {r \in [1..Cardinality(results) -> results] :
        /\ \A j, k \in DOMAIN r : j # k => r[j] # r[k]
        /\ \A j \in 1..(Len(r) - 1) : ~Less(r[j + 1], r[j])}

\* the result lists ScoreByCount can return
ScoreByCount(items, tokens) ==
    SortedResults({[Document |-> src, Score |-> ScoreOf(items[src])] : src \in Scored(items, tokens)})

\* what Search returns without ranking: nil, nil
NoResults == <<>>

(***************************************************************************)
(* Search on the in-memory index.                                          *)
(***************************************************************************)
\* a nil *Source
NilSource == [Name |-> "<nil>"]

\* i.Sources[document]
SourceOf(srcs, document) == IF document \in DOMAIN srcs THEN srcs[document] ELSE NilSource

NewItem == [count |-> 0, occurrences |-> EmptyMap]

\* a tally that counts positions instead of tokens
TallyCountingPositions(items, src, token, positions) ==
    LET item == IF src \in DOMAIN items THEN items[src] ELSE NewItem
    IN  Put(items, src, [count |-> item.count + Len(positions),
                         occurrences |-> Put(item.occurrences, token, positions)])

\* item.count++; item.occurrences[token] = positions
Tally(items, src, token, positions) ==
    LET item == IF src \in DOMAIN items THEN items[src] ELSE NewItem
    IN  Put(items, src, [count |-> item.count + 1,
                         occurrences |-> Put(item.occurrences, token, positions)])

\* for document, positions := range occurrences { ... }
RECURSIVE TallyDocuments(_, _, _, _, _)
TallyDocuments(items, token, occurrences, srcs, docs) ==
    IF docs = {} THEN items
    ELSE LET d == CHOOSE x \in docs : TRUE
         IN  TallyDocuments(Tally(items, SourceOf(srcs, d), token, occurrences[d]),
                            token, occurrences, srcs, docs \ {d})

\* the call: rawTokens := strings.FieldsFunc(...); items, tokens empty
Search ==
    /\ sPc = "idle"
    /\ \E q \in Queries : sRaw' = FieldsFunc(q)
    /\ sPc' = "loop"
    /\ sI' = 1
    /\ sItems' = EmptyMap
    /\ sTokens' = <<>>
    /\ UNCHANGED <<sTok, sResult, fatal, pipeVars, memVars, encodeVars, buildVars, flPc, facadeVars, dbVars, shutVars>>

SearchToken == StemString(sRaw[sI])

\* if stopwords.IsStopWord(token) { continue }
SearchSkip ==
    /\ sPc = "loop"
    /\ sI <= Len(sRaw)
    /\ IsStopWord(SearchToken)
    /\ sI' = sI + 1
    /\ UNCHANGED <<sPc, sRaw, sTok, sTokens, sItems, sResult, fatal>>
    /\ UNCHANGED <<pipeVars, memVars, encodeVars, buildVars, flPc, facadeVars, dbVars, shutVars>>

\* i.m.RLock(); occurrences, ok := i.Index[token]; i.m.RUnlock()
\* if !ok { return nil, nil }
SearchLookup ==
    /\ sPc = "loop"
    /\ sI <= Len(sRaw)
    /\ ~IsStopWord(SearchToken)
    /\ ~wlocked
    /\ IF SearchToken \in DOMAIN Index
       THEN /\ sTok' = SearchToken
            /\ sPc' = "iterate"
            /\ UNCHANGED sResult
       ELSE /\ sResult' = NoResults
            /\ sPc' = "done"
            /\ UNCHANGED sTok
    /\ UNCHANGED <<sRaw, sI, sTokens, sItems, fatal>>
    /\ UNCHANGED <<pipeVars, memVars, encodeVars, buildVars, flPc, facadeVars, dbVars, shutVars>>

\* the loop over occurrences, which is the map add writes to, and the reads of
\* i.Sources: no lock is held here
SearchIterate ==
    /\ sPc = "iterate"
    /\ sItems' = TallyDocuments(sItems, sTok, Postings(Index, sTok), Sources,
                                DOMAIN Postings(Index, sTok))
    /\ sTokens' = Append(sTokens, sTok)
    /\ sI' = sI + 1
    /\ sPc' = "loop"
    /\ UNCHANGED <<sRaw, sTok, sResult, fatal>>
    /\ UNCHANGED <<pipeVars, memVars, encodeVars, buildVars, flPc, facadeVars, dbVars, shutVars>>

\* add is between Lock and Unlock
Writing == \E k \in DOMAIN inAdd : inAdd[k].at \in {"register", "append"}

\* the Go runtime may detect the unsynchronised map access and abort the process
RaceAbort ==
    /\ sPc = "iterate"
    /\ Writing
    /\ fatal' = TRUE
    /\ UNCHANGED <<sPc, sRaw, sI, sTok, sTokens, sItems, sResult>>
    /\ UNCHANGED <<pipeVars, memVars, encodeVars, buildVars, flPc, facadeVars, dbVars, shutVars>>

\* return ScoreByCount(items, tokens)
SearchRank ==
    /\ sPc = "loop"
    /\ sI > Len(sRaw)
    /\ \E r \in ScoreByCount(sItems, sTokens) : sResult' = r
    /\ sPc' = "done"
    /\ UNCHANGED <<sRaw, sI, sTok, sTokens, sItems, fatal>>
    /\ UNCHANGED <<pipeVars, memVars, encodeVars, buildVars, flPc, facadeVars, dbVars, shutVars>>

\* one producer, the listener and one concurrent Search
NextRace ==
    \/ ~fatal /\ AddSource("p1")
    \/ ~fatal /\ SkipStopWord("p1")
    \/ ~fatal /\ Send("p1")
    \/ ~fatal /\ Return("p1")
    \/ ~fatal /\ \E k \in DOMAIN inAdd : AddLock(k)
    \/ ~fatal /\ \E k \in DOMAIN inAdd : AddRegister(k)
    \/ ~fatal /\ \E k \in DOMAIN inAdd : AddAppend(k)
    \/ ~fatal /\ Search
    \/ ~fatal /\ SearchSkip
    \/ ~fatal /\ SearchLookup
    \/ ~fatal /\ SearchIterate
    \/ ~fatal /\ RaceAbort
    \/ ~fatal /\ SearchRank

SpecRace == Init /\ [][NextRace]_vars

\* C7: every read Search makes of a postings map, a position list or the
\* source registry happens while the writer is excluded.
C7_ReadsExcludeWriter == [][(sPc = "iterate" /\ sPc' = "loop") => ~wlocked]_vars


(***************************************************************************)
(* Encode and Decode of the in-memory index.                               *)
(***************************************************************************)
\* a map as the encoder writes it: its entries, one after the other
RECURSIVE EncodeMap(_, _)
EncodeMap(m, keys) ==
    IF keys = {} THEN <<>>
    ELSE LET k == CHOOSE x \in keys : TRUE
         IN  <<[key |-> k, value |-> m[k]]>> \o EncodeMap(m, keys \ {k})

\* a map as the decoder rebuilds it, entry by entry, into the map m
RECURSIVE DecodeMap(_, _)
DecodeMap(entries, m) ==
    IF entries = <<>> THEN m
    ELSE DecodeMap(Tail(entries), Put(m, Head(entries).key, Head(entries).value))

\* field Index map[string]Occurrences: a map of maps
EncodedIndexField(ix) ==
    EncodeMap([token \in DOMAIN ix |-> EncodeMap(ix[token], DOMAIN ix[token])], DOMAIN ix)

\* a field the encoder does not see (an unexported one)
UnexportedField(srcs) == <<>>

\* field Sources map[string]*Source
EncodedSourcesField(srcs) == EncodeMap(srcs, DOMAIN srcs)

DecodedIndexField(entries) ==
    LET outer == DecodeMap(entries, EmptyMap)
    IN  [token \in DOMAIN outer |-> DecodeMap(outer[token], EmptyMap)]

\* decoder.Decode(i) into the index NewIndex made
DecodeValue(stream) ==
    [Index |-> DecodedIndexField(stream.Index), Sources |-> DecodeMap(stream.Sources, EmptyMap)]

EncodeNoLock ==
    /\ ePc = "idle"
    /\ encAt' = [Index |-> Index, Sources |-> Sources]
    /\ encoded' = [Index |-> <<>>, Sources |-> <<>>]
    /\ ePc' = "index"
    /\ UNCHANGED <<dPc, decoded, pipeVars, memVars, searchVars, buildVars, flPc, facadeVars, dbVars, shutVars>>

\* i.m.RLock(); defer i.m.RUnlock()
Encode ==
    /\ ePc = "idle"
    /\ ~wlocked
    /\ rholders' = rholders \cup {"Encode"}
    /\ encAt' = [Index |-> Index, Sources |-> Sources]
    /\ encoded' = [Index |-> <<>>, Sources |-> <<>>]
    /\ ePc' = "index"
    /\ UNCHANGED <<dPc, decoded, Index, Sources, srcAddr, wlocked, pipeVars, searchVars, buildVars, flPc, facadeVars, dbVars, shutVars>>

\* encoder.Encode(i): the field Index
EncodeIndex ==
    /\ ePc = "index"
    /\ encoded' = [encoded EXCEPT !.Index = EncodedIndexField(Index)]
    /\ ePc' = "sources"
    /\ UNCHANGED <<encAt, dPc, decoded, pipeVars, memVars, searchVars, buildVars, flPc, facadeVars, dbVars, shutVars>>

\* encoder.Encode(i): the field Sources; then the deferred RUnlock
EncodeSources ==
    /\ ePc = "sources"
    /\ encoded' = [encoded EXCEPT !.Sources = EncodedSourcesField(Sources)]
    /\ rholders' = rholders \ {"Encode"}
    /\ ePc' = "done"
    /\ UNCHANGED <<encAt, dPc, decoded, Index, Sources, srcAddr, wlocked, pipeVars, searchVars, buildVars, flPc, facadeVars, dbVars, shutVars>>

\* Decode: i := NewIndex(nil); decoder.Decode(i)
Decode ==
    /\ dPc = "idle"
    /\ ePc = "done"
    /\ decoded' = DecodeValue(encoded)
    /\ dPc' = "done"
    /\ UNCHANGED <<ePc, encoded, encAt, pipeVars, memVars, searchVars, buildVars, flPc, facadeVars, dbVars, shutVars>>

\* a caller that holds the index itself and calls add, one call after the
\* other, with any token, position and source
CallAdd ==
    /\ inAdd = <<>>
    /\ Len(written) < MaxAdds
    /\ \E token \in {"appl", "banana"}, pos \in Positions, doc \in DocNames :
          inAdd' = <<[t |-> [source |-> [Name |-> doc], token |-> token,
                            position |-> pos, by |-> "caller"],
                     at |-> "lock"]>>
    /\ UNCHANGED <<pc, name, text, idx, position, sent, written>>
    /\ UNCHANGED <<memVars, searchVars, encodeVars, buildVars, flPc, facadeVars, dbVars, shutVars>>

\* any sequence of calls of add, one Encode and the Decode of its output
NextEncode ==
    \/ CallAdd
    \/ \E k \in DOMAIN inAdd : AddLock(k)
    \/ \E k \in DOMAIN inAdd : AddRegister(k)
    \/ \E k \in DOMAIN inAdd : AddAppend(k)
    \/ Encode
    \/ EncodeIndex
    \/ EncodeSources
    \/ Decode

SpecEncode == Init /\ [][NextEncode]_vars

\* C8: from the moment Encode holds the read lock until it returns, no add
\* changes the postings map or the source registry, and what it encoded is the
\* index as it was at that one moment.
C8_EncodeIsAtomicSnapshot ==
    /\ ePc \in {"index", "sources"} =>
          /\ ~wlocked
          /\ Index = encAt.Index
          /\ Sources = encAt.Sources
    /\ ePc = "done" =>
          /\ encoded.Index = EncodedIndexField(encAt.Index)
          /\ encoded.Sources = EncodedSourcesField(encAt.Sources)

\* an add is blocked in Lock while Encode holds the read lock
C8_Witness ==
    /\ ePc = "sources"
    /\ Index # EmptyMap
    /\ \E k \in DOMAIN inAdd : inAdd[k].at = "lock"

BagSize(b) == LET RECURSIVE Sum(_)
                  Sum(S) == IF S = {} THEN 0
                            ELSE LET e == CHOOSE x \in S : TRUE IN b[e] + Sum(S \ {e})
              IN  Sum(DOMAIN b)

BagRemove(b, e) ==
    IF b[e] = 1 THEN [x \in DOMAIN b \ {e} |-> b[x]] ELSE [b EXCEPT ![e] = @ - 1]

\* the orders in which a query without ORDER BY may return the rows of a bag
RECURSIVE Arrangements(_)
Arrangements(b) ==
    IF DOMAIN b = {} THEN {<<>>}
    ELSE UNION {{<<e>> \o rest : rest \in Arrangements(BagRemove(b, e))} : e \in DOMAIN b}

\* the rows of the table occurrences
OccurrenceRows == [token_id : {1, 2}, document_id : {1, 2}, position : Positions]

\* the contents of the table occurrences the model starts from
StoreContents ==
    {b \in UNION {[S -> 1..MaxRows] : S \in {T \in SUBSET OccurrenceRows : Cardinality(T) <= MaxRows}} :
        BagSize(b) <= MaxRows}

\* the number of rows of a bag that lie in the set rows
RECURSIVE RowCount(_, _)
RowCount(b, rows) ==
    IF rows = {} THEN 0
    ELSE LET r == CHOOSE x \in rows : TRUE IN b[r] + RowCount(b, rows \ {r})

\* JOIN tokens t ON occurrences.token_id = t.id JOIN documents d ON
\* occurrences.document_id = d.id: the ids are the primary keys (serial)
Joined(r) == r.token_id \in DOMAIN pgTokens /\ r.document_id \in DOMAIN pgDocuments

\* SELECT position, t.token, d.name
JoinedItem(r) ==
    [Position |-> r.position, Token |-> pgTokens[r.token_id], Name |-> pgDocuments[r.document_id]]

\* a query that takes an empty token list for "no filter"
SelectRowsOrAll(tokens) ==
    LET hit == {r \in DOMAIN pgOccurrences :
                   Joined(r) /\ (tokens = <<>> \/ pgTokens[r.token_id] \in Range(tokens))}
    IN  [i \in {JoinedItem(r) : r \in hit} |->
            RowCount(pgOccurrences, {r \in hit : JoinedItem(r) = i})]

\* a query that forgets its WHERE clause
SelectAllRows(tokens) ==
    LET hit == {r \in DOMAIN pgOccurrences : Joined(r)}
    IN  [i \in {JoinedItem(r) : r \in hit} |->
            RowCount(pgOccurrences, {r \in hit : JoinedItem(r) = i})]

\* a Get that also reports the occurrences waiting in the flush buffer
SelectRowsAndBuffered(tokens) ==
    LET all == DOMAIN pgOccurrences \cup Range(insertList)
        hit == {r \in all : Joined(r) /\ pgTokens[r.token_id] \in Range(tokens)}
        N(r) == (IF r \in DOMAIN pgOccurrences THEN pgOccurrences[r] ELSE 0)
                + Cardinality({j \in DOMAIN insertList : insertList[j] = r})
        RECURSIVE Sum(_)
        Sum(rows) == IF rows = {} THEN 0
                     ELSE LET r == CHOOSE x \in rows : TRUE IN N(r) + Sum(rows \ {r})
    IN  [i \in {JoinedItem(r) : r \in hit} |-> Sum({r \in hit : JoinedItem(r) = i})]

\* SELECT position, t.token, d.name FROM occurrences JOIN tokens t ... JOIN
\* documents d ... WHERE t.token IN (tokens): the bag of its rows
SelectRows(tokens) ==
    LET hit == {r \in DOMAIN pgOccurrences : Joined(r) /\ pgTokens[r.token_id] \in Range(tokens)}
    IN  [i \in {JoinedItem(r) : r \in hit} |->
            RowCount(pgOccurrences, {r \in hit : JoinedItem(r) = i})]

\* a fold that allocates a Source for each (token, name) instead of each name
RECURSIVE GetFoldPerToken(_, _, _)
GetFoldPerToken(items, results, documents) ==
    IF items = <<>> THEN results
    ELSE LET item == Head(items)
             key == <<item.Token, item.Name>>
             docs2 == IF key \in DOMAIN documents THEN documents
                      ELSE Put(documents, key,
                               [addr |-> Cardinality(DOMAIN documents) + 1, Name |-> item.Name])
             doc == docs2[key]
             occ == IF item.Token \in DOMAIN results THEN results[item.Token] ELSE EmptyMap
             old == IF doc \in DOMAIN occ THEN occ[doc] ELSE <<>>
         IN  GetFoldPerToken(Tail(items),
                             Put(results, item.Token, Put(occ, doc, Append(old, item.Position))),
                             docs2)

\* for _, item := range items { ... }: documents maps a name to the *Source
\* allocated for it, results[token][doc] collects the positions
RECURSIVE GetFold(_, _, _)
GetFold(items, results, documents) ==
    IF items = <<>> THEN results
    ELSE LET item == Head(items)
             docs2 == IF item.Name \in DOMAIN documents THEN documents
                      ELSE Put(documents, item.Name,
                               [addr |-> Cardinality(DOMAIN documents) + 1, Name |-> item.Name])
             doc == docs2[item.Name]
             occ == IF item.Token \in DOMAIN results THEN results[item.Token] ELSE EmptyMap
             old == IF doc \in DOMAIN occ THEN occ[doc] ELSE <<>>
         IN  GetFold(Tail(items),
                     Put(results, item.Token, Put(occ, doc, Append(old, item.Position))),
                     docs2)

\* what Get can return for tokens when the query succeeds
DbGet(tokens) == {GetFold(rows, EmptyMap, EmptyMap) : rows \in Arrangements(SelectRows(tokens))}

(***************************************************************************)
(* Search of the facade (engine.Get, then the ranking).                    *)
(***************************************************************************)
\* the loop over rawTokens: stem, drop stop words, append
RECURSIVE QueryTokens(_)
QueryTokens(rawTokens) ==
    IF rawTokens = <<>> THEN <<>>
    ELSE IF IsStopWord(StemString(Head(rawTokens))) THEN QueryTokens(Tail(rawTokens))
         ELSE <<StemString(Head(rawTokens))>> \o QueryTokens(Tail(rawTokens))

\* for source, positions := range occurrences { ... }
RECURSIVE TallySources(_, _, _, _)
TallySources(items, token, occurrences, srcs) ==
    IF srcs = {} THEN items
    ELSE LET src == CHOOSE x \in srcs : TRUE
         IN  TallySources(Tally(items, src, token, occurrences[src]), token, occurrences,
                          srcs \ {src})

\* for token, occurrences := range occurrencesList { ... }
RECURSIVE TallyTokens(_, _, _)
TallyTokens(items, occurrencesList, tokens) ==
    IF tokens = {} THEN items
    ELSE LET token == CHOOSE x \in tokens : TRUE
         IN  TallyTokens(TallySources(items, token, occurrencesList[token],
                                      DOMAIN occurrencesList[token]),
                         occurrencesList, tokens \ {token})

\* what engine.Get can answer: an error, or the postings it found
GetAnswers(tokens) ==
    {[results |-> EmptyMap, err |-> TRUE]}
        \cup {[results |-> got, err |-> FALSE] : got \in DbGet(tokens)}

\* if err != nil || len(occurrencesList) == 0
ReturnsEarly(got) == got.err \/ DOMAIN got.results = {}

\* a Search that answers a failed Get with an empty result and no error
EarlyResultNoError(got) == [results |-> NoResults, err |-> FALSE]

\* return nil, err
EarlyResult(got) == [results |-> NoResults, err |-> got.err]

\* Search up to the return of engine.Get:
\* if err != nil || len(occurrencesList) == 0 { return nil, err }
FacadeSearch ==
    /\ fPc = "idle"
    /\ \E q \in FacadeQueries :
          /\ fQuery' = q
          /\ fTokens' = QueryTokens(FieldsFunc(q))
    /\ fItems' = EmptyMap
    /\ \E got \in GetAnswers(fTokens') :
          /\ fGot' = got
          /\ IF ReturnsEarly(got)
             THEN fResult' = EarlyResult(got) /\ fPc' = "done"
             ELSE UNCHANGED fResult /\ fPc' = "got"
    /\ UNCHANGED <<pgTokens, pgDocuments, pgOccurrences>>
    /\ UNCHANGED <<pipeVars, memVars, searchVars, encodeVars, buildVars, flPc, dbVars, shutVars>>

\* the tally and the ranking: return ScoreByCount(items, tokens)
FacadeRank ==
    /\ fPc = "got"
    /\ fItems' = TallyTokens(fItems, fGot.results, DOMAIN fGot.results)
    /\ \E r \in ScoreByCount(fItems', fTokens) :
          fResult' = [results |-> r, err |-> FALSE]
    /\ fPc' = "done"
    /\ UNCHANGED <<pgTokens, pgDocuments, pgOccurrences, fQuery, fTokens, fGot>>
    /\ UNCHANGED <<pipeVars, memVars, searchVars, encodeVars, buildVars, flPc, dbVars, shutVars>>

\* a database holding any occurrences of two tokens in two documents
InitStore ==
    /\ pgTokens = <<"appl", "banana">>
    /\ pgDocuments = <<"file1", "file2">>
    /\ pgOccurrences \in StoreContents
    /\ fPc = "idle"
    /\ fQuery = <<>>
    /\ fTokens = <<>>
    /\ fGot = <<>>
    /\ fItems = EmptyMap
    /\ fResult = <<>>

InitFacadeSearch ==
    NewIndex /\ InitProducers /\ InitSearch /\ InitEncode /\ InitBuild /\ InitStore /\ NewDbIndex /\ InitListen

NextFacadeSearch ==
    \/ FacadeSearch
    \/ FacadeRank

SpecSearch == InitFacadeSearch /\ [][NextFacadeSearch]_vars

(***************************************************************************)
(* DbIndex: Add with getToken and getDocument, the flush goroutine, Get.   *)
(***************************************************************************)
\* most calls of DbIndex.Add, over all callers
MaxCalls == 2

\* most bulk inserts the flush goroutine attempts
MaxTicks == 2

\* the tokens handed to DbIndex.Add
AddTokens == {"appl", "banana"}

\* the token lists handed to DbIndex.Get
GetArgs == {<<"appl">>}

\* the ids of the rows of a table that hold a value
IdsOf(table, value) == {id \in DOMAIN table : table[id] = value}

\* what the rest of a call of Add remembers
Calling(c, at) == [dbCall EXCEPT ![c].at = at]

\* Add returned to its caller
Returned2Caller(c) == [at |-> "idle", n |-> dbCall[c].n + 1, err |-> FALSE]

\* an Add that answers nil when the resolution failed
ReturnedErrSwallowed(c) == [at |-> "idle", n |-> dbCall[c].n + 1, err |-> FALSE]

\* if err != nil { return err }: Add returned the error of getToken or getDocument
ReturnedErr(c) == [at |-> "idle", n |-> dbCall[c].n + 1, err |-> TRUE]

\* the calls of Add made so far
RECURSIVE CallsMade(_)
CallsMade(callers) ==
    IF callers = {} THEN 0
    ELSE LET c == CHOOSE x \in callers : TRUE
         IN  dbCall[c].n + (IF dbCall[c].at = "idle" THEN 0 ELSE 1) + CallsMade(callers \ {c})

\* Add(token, position, source): the call
DbAdd(c) ==
    /\ dbCall[c].at = "idle"
    /\ CallsMade(DbCallers) < MaxCalls
    /\ \E token \in AddTokens, doc \in DocNames, pos \in Positions :
          dbCall' = [dbCall EXCEPT ![c] =
                        [at |-> "tokenCache", n |-> dbCall[c].n, err |-> FALSE, token |-> token,
                         name |-> doc, position |-> pos, tkn |-> 0, doc |-> 0]]
    /\ UNCHANGED <<tokensCache, documentsCache, insertList, getCall, created, addLog, batches>>
    /\ UNCHANGED <<pipeVars, memVars, searchVars, encodeVars, buildVars, flPc, facadeVars, shutVars>>

\* getToken: i.tokensM.RLock(); id, ok := i.tokensCache[token]; RUnlock
TokenCache(c) ==
    /\ dbCall[c].at = "tokenCache"
    /\ dbCall' = IF dbCall[c].token \in DOMAIN tokensCache
                 THEN [dbCall EXCEPT ![c].at = "docCache",
                                     ![c].tkn = tokensCache[dbCall[c].token]]
                 ELSE Calling(c, "tokenSelect")
    /\ UNCHANGED <<tokensCache, documentsCache, insertList, getCall, created, addLog, batches>>
    /\ UNCHANGED <<pipeVars, memVars, searchVars, encodeVars, buildVars, flPc, facadeVars, shutVars>>

\* getToken: i.pg.Model(tkn).Where("token=?", token).Select(): an error, a
\* row of the table (any of the matching ones), or pg.ErrNoRows
TokenSelect(c) ==
    /\ dbCall[c].at = "tokenSelect"
    /\ \/ dbCall' = [dbCall EXCEPT ![c] = ReturnedErr(c)]
       \/ \E id \in IdsOf(pgTokens, dbCall[c].token) :
             dbCall' = [dbCall EXCEPT ![c].at = "docCache", ![c].tkn = id]
       \/ /\ IdsOf(pgTokens, dbCall[c].token) = {}
          /\ dbCall' = Calling(c, "tokenInsert")
    /\ UNCHANGED <<tokensCache, documentsCache, insertList, getCall, created, addLog, batches>>
    /\ UNCHANGED <<pipeVars, memVars, searchVars, encodeVars, buildVars, flPc, facadeVars, shutVars>>

\* a resolver that writes the cache entry before it looks at the insert's error
CachedBeforeInsert(cache, ok, key, id) == Put(cache, key, id)

\* if _, err := ...Insert(); err != nil { return nil, ... }; cache[key] = ID
CachedAfterInsert(cache, ok, key, id) == IF ok THEN Put(cache, key, id) ELSE cache

\* getToken: i.tokensM.Lock(); Insert (id serial); i.tokensCache[token] = tkn.ID
\* (ok: the insert succeeded)
TokenInsert(c) ==
    /\ dbCall[c].at = "tokenInsert"
    /\ \E ok \in BOOLEAN :
          /\ pgTokens' = IF ok THEN Append(pgTokens, dbCall[c].token) ELSE pgTokens
          /\ tokensCache' = CachedAfterInsert(tokensCache, ok, dbCall[c].token, Len(pgTokens) + 1)
          /\ created' = IF ok THEN Append(created, [table |-> "tokens", value |-> dbCall[c].token])
                        ELSE created
          /\ dbCall' = IF ok THEN [dbCall EXCEPT ![c].at = "docCache", ![c].tkn = Len(pgTokens) + 1]
                       ELSE [dbCall EXCEPT ![c] = ReturnedErr(c)]
    /\ UNCHANGED <<documentsCache, insertList, getCall, addLog, batches>>
    /\ UNCHANGED <<pgDocuments, pgOccurrences, fPc, fQuery, fTokens, fGot, fItems, fResult>>
    /\ UNCHANGED <<pipeVars, memVars, searchVars, encodeVars, buildVars, flPc, shutVars>>

\* getDocument: i.documentsM.RLock(); id, ok := i.documentsCache[name]; RUnlock
DocumentCache(c) ==
    /\ dbCall[c].at = "docCache"
    /\ dbCall' = IF dbCall[c].name \in DOMAIN documentsCache
                 THEN [dbCall EXCEPT ![c].at = "send",
                                     ![c].doc = documentsCache[dbCall[c].name]]
                 ELSE Calling(c, "docSelect")
    /\ UNCHANGED <<tokensCache, documentsCache, insertList, getCall, created, addLog, batches>>
    /\ UNCHANGED <<pipeVars, memVars, searchVars, encodeVars, buildVars, flPc, facadeVars, shutVars>>

\* getDocument: i.pg.Model(doc).Where("name=?", name).Select()
DocumentSelect(c) ==
    /\ dbCall[c].at = "docSelect"
    /\ \/ dbCall' = [dbCall EXCEPT ![c] = ReturnedErr(c)]
       \/ \E id \in IdsOf(pgDocuments, dbCall[c].name) :
             dbCall' = [dbCall EXCEPT ![c].at = "send", ![c].doc = id]
       \/ /\ IdsOf(pgDocuments, dbCall[c].name) = {}
          /\ dbCall' = Calling(c, "docInsert")
    /\ UNCHANGED <<tokensCache, documentsCache, insertList, getCall, created, addLog, batches>>
    /\ UNCHANGED <<pipeVars, memVars, searchVars, encodeVars, buildVars, flPc, facadeVars, shutVars>>

\* getDocument: i.documentsM.Lock(); Insert; i.documentsCache[name] = doc.ID
DocumentInsert(c) ==
    /\ dbCall[c].at = "docInsert"
    /\ \E ok \in BOOLEAN :
          /\ pgDocuments' = IF ok THEN Append(pgDocuments, dbCall[c].name) ELSE pgDocuments
          /\ documentsCache' =
                CachedAfterInsert(documentsCache, ok, dbCall[c].name, Len(pgDocuments) + 1)
          /\ created' = IF ok THEN Append(created, [table |-> "documents", value |-> dbCall[c].name])
                        ELSE created
          /\ dbCall' = IF ok THEN [dbCall EXCEPT ![c].at = "send", ![c].doc = Len(pgDocuments) + 1]
                       ELSE [dbCall EXCEPT ![c] = ReturnedErr(c)]
    /\ UNCHANGED <<tokensCache, insertList, getCall, addLog, batches>>
    /\ UNCHANGED <<pgTokens, pgOccurrences, fPc, fQuery, fTokens, fGot, fItems, fResult>>
    /\ UNCHANGED <<pipeVars, memVars, searchVars, encodeVars, buildVars, flPc, shutVars>>

\* an occurrence with the two ids in each other's place
NewOccurrenceSwapped(call) ==
    [token_id |-> call.doc, document_id |-> call.tkn, position |-> call.position]

\* Occurrence{TokenID: tkn.ID, DocumentID: doc.ID, Position: position}
NewOccurrence(call) ==
    [token_id |-> call.tkn, document_id |-> call.doc, position |-> call.position]

\* i.insertC <- Occurrence{...}; return err
\* insertC is unbuffered and flush receives whenever it is not inserting:
\* case occurrence := <-i.insertC: insertList = append(insertList, occurrence)
AddSend(c) ==
    /\ dbCall[c].at = "send"
    /\ flPc = "select"
    /\ insertList' = Append(insertList, NewOccurrence(dbCall[c]))
    /\ addLog' = Append(addLog, [by |-> c, token |-> dbCall[c].token, name |-> dbCall[c].name,
                                 occurrence |-> NewOccurrence(dbCall[c])])
    /\ dbCall' = [dbCall EXCEPT ![c] = Returned2Caller(c)]
    /\ UNCHANGED <<tokensCache, documentsCache, getCall, created, batches>>
    /\ UNCHANGED <<pipeVars, memVars, searchVars, encodeVars, buildVars, flPc, facadeVars, shutVars>>


\* one more row in a bag of rows
BagAdd(b, r) == IF r \in DOMAIN b THEN [b EXCEPT ![r] = @ + 1] ELSE (r :> 1) @@ b

\* a bulk insert that stores only its first row
InsertedPartially(store, list) == BagAdd(store, Head(list))

\* i.pg.Model(&insertList).Insert(): every row of insertList, in one statement
RECURSIVE Inserted(_, _)
Inserted(store, list) ==
    IF list = <<>> THEN store ELSE Inserted(BagAdd(store, Head(list)), Tail(list))

\* a flush that never empties its list
AfterInsertKept(list, ok) == list

\* a flush that drops the batch whatever the insert returned
AfterInsertDiscarded(list, ok) == <<>>

\* if err != nil { log.Err(err); continue }; insertList = []Occurrence{}
AfterInsert(list, ok) == IF ok THEN <<>> ELSE list

\* case <-ticker.C: with an empty insertList the tick changes nothing
\* (continue); otherwise the bulk insert succeeds or fails
FlushTick ==
    /\ flPc = "select"
    /\ insertList # <<>>
    /\ Len(batches) < MaxTicks
    /\ \E ok \in BOOLEAN :
          /\ pgOccurrences' = IF ok THEN Inserted(pgOccurrences, insertList) ELSE pgOccurrences
          /\ insertList' = AfterInsert(insertList, ok)
          /\ batches' = Append(batches, [rows |-> insertList, ok |-> ok, upto |-> Len(addLog)])
    /\ UNCHANGED <<tokensCache, documentsCache, dbCall, getCall, created, addLog>>
    /\ UNCHANGED <<pgTokens, pgDocuments, fPc, fQuery, fTokens, fGot, fItems, fResult>>
    /\ UNCHANGED <<pipeVars, memVars, searchVars, encodeVars, buildVars, flPc, shutVars>>

\* Get(tokens): the query fails, or its rows are folded into the result
Get ==
    /\ getCall.at = "idle"
    /\ \E tokens \in GetArgs :
          \/ getCall' = [at |-> "done", tokens |-> tokens, got |-> EmptyMap, err |-> TRUE,
                          buffered |-> insertList]
          \/ \E got \in DbGet(tokens) :
                getCall' = [at |-> "done", tokens |-> tokens, got |-> got, err |-> FALSE,
                            buffered |-> insertList]
    /\ UNCHANGED <<tokensCache, documentsCache, insertList, dbCall, created, addLog, batches>>
    /\ UNCHANGED <<pipeVars, memVars, searchVars, encodeVars, buildVars, flPc, facadeVars, shutVars>>

\* a database that already holds one token and one document
InitDb ==
    /\ pgTokens = <<"appl">>
    /\ pgDocuments = <<"file1">>
    /\ pgOccurrences = EmptyMap
    /\ fPc = "idle"
    /\ fQuery = <<>>
    /\ fTokens = <<>>
    /\ fGot = <<>>
    /\ fItems = EmptyMap
    /\ fResult = <<>>

InitDbIndex ==
    NewIndex /\ InitProducers /\ InitSearch /\ InitEncode /\ InitBuild /\ InitDb /\ NewDbIndex /\ InitListen

\* Add called from several goroutines
NextDb ==
    \/ \E c \in DbCallers : DbAdd(c)
    \/ \E c \in DbCallers : TokenCache(c)
    \/ \E c \in DbCallers : TokenSelect(c)
    \/ \E c \in DbCallers : TokenInsert(c)
    \/ \E c \in DbCallers : DocumentCache(c)
    \/ \E c \in DbCallers : DocumentSelect(c)
    \/ \E c \in DbCallers : DocumentInsert(c)
    \/ \E c \in DbCallers : AddSend(c)

SpecDb == InitDbIndex /\ [][NextDb]_vars

\* Add called by one goroutine only (the facade's listener), flush and Get
NextDbSeq ==
    \/ DbAdd("c1")
    \/ TokenCache("c1")
    \/ TokenSelect("c1")
    \/ TokenInsert("c1")
    \/ DocumentCache("c1")
    \/ DocumentSelect("c1")
    \/ DocumentInsert("c1")
    \/ AddSend("c1")
    \/ FlushTick
    \/ Get

SpecDbSeq == InitDbIndex /\ [][NextDbSeq]_vars

(***************************************************************************)
(* The facade's pipeline over an IndexEngine: AddSource, chanIn with a     *)
(* capacity, the listen goroutine, close(chanIn).                          *)
(***************************************************************************)
\* the capacity of a buffered chanIn
QueueCap == 2

\* i.chanIn <- newToken{...} on a chanIn with room in its buffer
SendBuffered(p) ==
    /\ Scanned(p)
    /\ ~IsStopWord(CurToken(p))
    /\ chanCap > 0
    /\ ~closed
    /\ Len(queue) < chanCap
    /\ queue' = Append(queue, NewToken(p))
    /\ idx' = [idx EXCEPT ![p] = idx[p] + 1]
    /\ position' = [position EXCEPT ![p] = NextPosition(position[p])]
    /\ sent' = Append(sent, NewToken(p))
    /\ UNCHANGED <<pc, name, text, inAdd, written>>
    /\ UNCHANGED <<chanCap, closed, ret, late, lPc, panicked, engineLog>>
    /\ UNCHANGED <<memVars, searchVars, encodeVars, buildVars, flPc, facadeVars, dbVars>>

\* i.chanIn <- newToken{...} on the closed chanIn (also a send that was
\* blocked when the channel was closed): panic: send on closed channel
SendClosed(p) ==
    /\ Scanned(p)
    /\ ~IsStopWord(CurToken(p))
    /\ closed
    /\ late' = late \cup {p}
    /\ panicked' = TRUE
    /\ UNCHANGED <<chanCap, queue, closed, ret, lPc, engineLog>>
    /\ UNCHANGED <<pipeVars, memVars, searchVars, encodeVars, buildVars, flPc, facadeVars, dbVars>>

\* close(i.chanIn), by the owner of the index
Close ==
    /\ ~closed
    /\ closed' = TRUE
    /\ UNCHANGED <<chanCap, queue, ret, late, lPc, panicked, engineLog>>
    /\ UNCHANGED <<pipeVars, memVars, searchVars, encodeVars, buildVars, flPc, facadeVars, dbVars>>

\* for t := range i.chanIn: a buffered value is received
Receive ==
    /\ lPc = "run"
    /\ ListenReady
    /\ queue # <<>>
    /\ inAdd' = <<[t |-> Head(queue), at |-> "lock"]>>
    /\ queue' = Tail(queue)
    /\ UNCHANGED <<pc, name, text, idx, position, sent, written>>
    /\ UNCHANGED <<chanCap, closed, ret, late, lPc, panicked, engineLog>>
    /\ UNCHANGED <<memVars, searchVars, encodeVars, buildVars, flPc, facadeVars, dbVars>>

\* a listener that gives up at the first error of the engine
StopOnError(err) == IF err THEN "exited" ELSE "run"

\* i.engine.Add(t.token, t.position, t.source): the error is not looked at
AfterAdd(err) == "run"

\* the call of engine.Add returns, with an error or without
EngineAdd ==
    /\ lPc = "run"
    /\ inAdd # <<>>
    /\ \E err \in BOOLEAN :
          /\ engineLog' = Append(engineLog, [t |-> inAdd[1].t, err |-> err])
          /\ lPc' = AfterAdd(err)
    /\ inAdd' = <<>>
    /\ UNCHANGED <<pc, name, text, idx, position, sent, written>>
    /\ UNCHANGED <<chanCap, queue, closed, ret, late, panicked>>
    /\ UNCHANGED <<memVars, searchVars, encodeVars, buildVars, flPc, facadeVars, dbVars>>

\* the range loop ends: chanIn is closed and empty
ListenExit ==
    /\ lPc = "run"
    /\ ListenReady
    /\ closed
    /\ queue = <<>>
    /\ lPc' = "exited"
    /\ UNCHANGED <<chanCap, queue, closed, ret, late, panicked, engineLog>>
    /\ UNCHANGED <<pipeVars, memVars, searchVars, encodeVars, buildVars, flPc, facadeVars, dbVars>>

\* NewIndex (unbuffered chanIn) or an Index made with a buffered chanIn
InitPipeline ==
    /\ NewIndex /\ InitProducers /\ InitSearch /\ InitEncode /\ InitBuild /\ InitFacade /\ NewDbIndex
    /\ chanCap \in {0, QueueCap}
    /\ queue = <<>>
    /\ closed = FALSE
    /\ ret = [p \in Producers |-> "none"]
    /\ late = {}
    /\ lPc = "run"
    /\ panicked = FALSE
    /\ engineLog = <<>>

\* one AddSource call, the listener and the close of the channel; after a
\* panic the process is gone
NextPipeline ==
    \/ ~panicked /\ AddSource("p1")
    \/ ~panicked /\ SkipStopWord("p1")
    \/ ~panicked /\ Send("p1")
    \/ ~panicked /\ SendBuffered("p1")
    \/ ~panicked /\ SendClosed("p1")
    \/ ~panicked /\ Return("p1")
    \/ ~panicked /\ Close
    \/ ~panicked /\ Receive
    \/ ~panicked /\ EngineAdd
    \/ ~panicked /\ ListenExit

SpecPipeline == InitPipeline /\ [][NextPipeline]_vars

(***************************************************************************)
(* One word as the text of a document and as a query.                      *)
(***************************************************************************)
\* the documents that consist of one word
WordTexts == {<<w>> : w \in QueryWords}

\* AddSource on a one-word document
AddSourceWord(p) == AddSourceOf(p, WordTexts)

\* AddSource of a one-word document, the listener, and one Search
NextNormalize ==
    \/ AddSourceWord("p1")
    \/ SkipStopWord("p1")
    \/ Send("p1")
    \/ Return("p1")
    \/ EngineAdd
    \/ FacadeSearch

SpecNormalize == Init /\ [][NextNormalize]_vars

(***************************************************************************)
(* Properties of Search, ScoreByCount and Get.                             *)
(***************************************************************************)
\* how many rows the store holds for (token, document name, position)
StoredCount(token, doc, pos) ==
    RowCount(pgOccurrences,
             {r \in DOMAIN pgOccurrences :
                 /\ Joined(r)
                 /\ JoinedItem(r) = [Position |-> pos, Token |-> token, Name |-> doc]})

\* how many occurrences of token the store holds for the document
Occurs(token, doc) ==
    LET RECURSIVE Sum(_)
        Sum(S) == IF S = {} THEN 0
                  ELSE LET v == CHOOSE x \in S : TRUE IN StoredCount(token, doc, v) + Sum(S \ {v})
    IN  Sum(Positions)

RECURSIVE OccursAll(_, _)
OccursAll(tokens, doc) ==
    IF tokens = {} THEN 0
    ELSE LET t == CHOOSE x \in tokens : TRUE IN Occurs(t, doc) + OccursAll(tokens \ {t}, doc)

Returned == fPc = "done" /\ ~fResult.err

ReturnedNames == {fResult.results[j].Document.Name : j \in DOMAIN fResult.results}

\* C1: Search returns a document if and only if every retained query token
\* occurs in it at least once.
C1_ConjunctiveSearch ==
    (Returned /\ fTokens # <<>>) =>
        \A doc \in DocNames :
            (doc \in ReturnedNames) <=> (\A j \in DOMAIN fTokens : Occurs(fTokens[j], doc) > 0)

\* the same for the queries that repeat no token
ConjunctiveForDistinctTokens ==
    (Returned /\ fTokens # <<>> /\ Cardinality(Range(fTokens)) = Len(fTokens)) =>
        \A doc \in DocNames :
            (doc \in ReturnedNames) <=> (\A j \in DOMAIN fTokens : Occurs(fTokens[j], doc) > 0)

\* a document below the number of query tokens is never returned
BelowCountNeverReturned ==
    Returned =>
        \A doc \in ReturnedNames :
            Cardinality({t \in Range(fTokens) : Occurs(t, doc) > 0}) >= Len(fTokens)

\* C2: the score of each returned document is the number of positions recorded
\* for it under its matched tokens, and the list is ordered by non-increasing
\* score.
C2_ScoreIsOccurrenceCount ==
    Returned =>
        /\ \A j \in DOMAIN fResult.results :
              fResult.results[j].Score =
                  OccursAll(Range(fTokens), fResult.results[j].Document.Name)
        /\ \A j \in 1..(Len(fResult.results) - 1) :
              fResult.results[j].Score >= fResult.results[j + 1].Score

C2_Witness ==
    /\ Returned
    /\ Len(fResult.results) = 2
    /\ fResult.results[1].Score = 2
    /\ fResult.results[2].Score = 1

\* how often a value is in a sequence
CountIn(s, v) == Cardinality({j \in DOMAIN s : s[j] = v})

\* the *Source keys of a postings map that carry a document name
KeysNamed(occurrences, doc) == {src \in DOMAIN occurrences : src.Name = doc}

GetReturned == fPc \in {"got", "done"} /\ ~fGot.err

\* C10: Get returns an entry for exactly the requested tokens that have
\* occurrences in the store, and under each of them every document and every
\* position the store holds for it, nothing else.
C10_GetReturnsRequestedPostings ==
    GetReturned =>
        /\ DOMAIN fGot.results =
              {t \in Range(fTokens) : \E doc \in DocNames : Occurs(t, doc) > 0}
        /\ \A t \in DOMAIN fGot.results : \A doc \in DocNames :
              /\ (KeysNamed(fGot.results[t], doc) # {}) <=> (Occurs(t, doc) > 0)
              /\ \A src \in KeysNamed(fGot.results[t], doc) : \A v \in Positions :
                    CountIn(fGot.results[t][src], v) = StoredCount(t, doc, v)
              /\ \A src \in KeysNamed(fGot.results[t], doc) :
                    Range(fGot.results[t][src]) \subseteq Positions

\* "orang" is requested and absent, "banana" is stored and not requested
C10_Witness ==
    /\ GetReturned
    /\ Range(fTokens) = {"appl", "orang"}
    /\ DOMAIN fGot.results = {"appl"}
    /\ Cardinality(DOMAIN fGot.results["appl"]) = 2
    /\ \E doc \in DocNames : Occurs("banana", doc) > 0

(***************************************************************************)
(* Properties of the ingestion pipeline.                                   *)
(***************************************************************************)
StoredTokens == {"appl", "banana"}

\* the occurrences of a history that one AddSource call submitted
ByProducer(h, p) == SelectSeq(h, LAMBDA t : t.by = p)

\* the positions a history holds for (token, document), in order
PositionsIn(h, token, doc) ==
    LET hit == SelectSeq(h, LAMBDA t : t.token = token /\ t.source.Name = doc)
    IN  [j \in 1..Len(hit) |-> hit[j].position]

\* the calls of add that have not returned yet
InFlight == [j \in 1..Len(inAdd) |-> inAdd[j].t]

\* every AddSource call for doc has returned and every value it sent was applied
IngestionCompleted(doc) ==
    /\ \E p \in Producers : pc[p] = "done" /\ name[p] = doc
    /\ \A p \in Producers : name[p] = doc => pc[p] = "done"
    /\ \A j \in DOMAIN inAdd : inAdd[j].t.source.Name # doc

\* C3: once the ingestion of a document has completed, the postings of every
\* token hold the document with exactly the positions at which the token was
\* sent for it, in send order and one per occurrence; a token never sent for
\* the document has no entry for it.
C3_PostingsAreEmittedPositions ==
    \A doc \in DocNames :
        IngestionCompleted(doc) =>
            \A token \in StoredTokens \cup DOMAIN Index :
                /\ PositionsOf(Index, token, doc) = PositionsIn(sent, token, doc)
                /\ (doc \in DOMAIN Postings(Index, token)) <=> (PositionsIn(sent, token, doc) # <<>>)

C3_Witness ==
    /\ IngestionCompleted("file1")
    /\ PositionsOf(Index, "appl", "file1") = <<0, 1>>

StrictlyIncreasing(s) == \A j \in 1..(Len(s) - 1) : s[j] < s[j + 1]

\* C4: the occurrences one AddSource call submitted are written in the order
\* it sent them (what is written for a call is a prefix of what it sent), with
\* strictly increasing positions, whatever the other producers do.
C4_PerProducerOrder ==
    \A p \in Producers :
        LET w == ByProducer(written, p)
            s == ByProducer(sent, p)
        IN  /\ Len(w) <= Len(s)
            /\ w = SubSeq(s, 1, Len(w))
            /\ StrictlyIncreasing([j \in 1..Len(w) |-> w[j].position])

C4_Witness ==
    /\ Len(written) = 3
    /\ written[1].by = "p1"
    /\ written[2].by = "p2"
    /\ written[3].by = "p1"

\* the tokens AddSource keeps of a text, in scan order
RECURSIVE RetainedTokens(_)
RetainedTokens(t) ==
    IF t = <<>> THEN <<>>
    ELSE IF IsStopWord(prepare(Head(t))) THEN RetainedTokens(Tail(t))
         ELSE <<prepare(Head(t))>> \o RetainedTokens(Tail(t))

TokensOf(h) == [j \in 1..Len(h) |-> h[j].token]

\* C5: nothing sent is dropped or duplicated: at every moment the occurrences
\* of one producer that add wrote or is writing are exactly those it sent, in
\* order, and once an AddSource call has returned add was called once for
\* every retained token of its text.
C5_ExactlyOnce ==
    \A p \in Producers :
        LET handed == ByProducer(written, p) \o ByProducer(InFlight, p)
        IN  /\ handed = ByProducer(sent, p)
            /\ pc[p] = "done" => TokensOf(handed) = RetainedTokens(text[p])

\* a producer is blocked in its send while the listener is inside add
Blocked(p) == Scanned(p) /\ ~IsStopWord(CurToken(p)) /\ ~ListenReady

C5_Witness ==
    /\ pc["p1"] = "done"
    /\ Len(RetainedTokens(text["p1"])) = 2
    /\ Blocked("p2")
    /\ Len(written) = 2

\* C6: at most one call of add is in progress at any time.
C6_OneAddAtATime == Len(inAdd) <= 1

C6_Witness ==
    /\ Len(inAdd) = 1
    /\ inAdd[1].at = "append"
    /\ \E p \in Producers : Blocked(p) /\ p # inAdd[1].t.by

(***************************************************************************)
(* Properties of the PostgreSQL engine.                                    *)
(***************************************************************************)
\* C11: for every token value and every document name at most one row is
\* ever inserted, also when Add is called by concurrent callers.
C11_OneRowPerValue ==
    \A j, k \in DOMAIN created : created[j] = created[k] => j = k

\* the occurrences Add has sent for one token and two different documents
SameTokenTwoDocuments(j, k) ==
    /\ addLog[j].token = addLog[k].token
    /\ addLog[j].name # addLog[k].name

RowsIn(b, r) == IF r \in DOMAIN b THEN b[r] ELSE 0

\* flush has just attempted a bulk insert
Ticked == Len(batches') = Len(batches) + 1

\* C13: the buffer of occurrences not yet persisted is emptied only by a
\* bulk insert that stored all of its contents, and a failed bulk insert
\* leaves the buffer and the store as they were.
C13_ClearedOnlyAfterSuccess ==
    [][/\ (insertList # <<>> /\ insertList' = <<>>) =>
            /\ Ticked
            /\ batches'[Len(batches')].ok
            /\ \A r \in OccurrenceRows :
                  RowsIn(pgOccurrences', r) = RowsIn(pgOccurrences, r) + CountIn(insertList, r)
       /\ (Ticked /\ ~batches'[Len(batches')].ok) =>
            (insertList' = insertList /\ pgOccurrences' = pgOccurrences)
       /\ Len(insertList') >= Len(insertList) \/ insertList' = <<>>]_vars

C13_Witness ==
    /\ Len(batches) = 2
    /\ ~batches[1].ok
    /\ batches[2].ok
    /\ insertList = <<>>
    /\ pgOccurrences # EmptyMap

\* the occurrences Add sent after the first lo ones, up to the hi-th
SentBetween(lo, hi) == [j \in 1..(hi - lo) |-> addLog[lo + j].occurrence]

\* how many occurrences had been sent at the bulk insert before the j-th
UptoBefore(j) == IF j = 1 THEN 0 ELSE batches[j - 1].upto

\* how many occurrences had been sent at the last successful bulk insert
\* before the j-th
RECURSIVE UptoLastSuccess(_)
UptoLastSuccess(j) ==
    IF j = 1 THEN 0
    ELSE IF batches[j - 1].ok THEN batches[j - 1].upto ELSE UptoLastSuccess(j - 1)

\* C14 as stated: every bulk insert holds only the occurrences added since
\* the bulk insert before it, whether that one failed or not.
C14_FailedBatchDiscarded ==
    \A j \in DOMAIN batches : batches[j].rows = SentBetween(UptoBefore(j), batches[j].upto)

\* C14 as amended: every bulk insert holds the occurrences added since the
\* last successful bulk insert, so the occurrences of a failed bulk insert
\* are part of the next one, followed by those added after the failure.
C14_FailedBatchRetried ==
    \A j \in DOMAIN batches : batches[j].rows = SentBetween(UptoLastSuccess(j), batches[j].upto)

C14_Witness ==
    /\ Len(batches) = 2
    /\ ~batches[1].ok
    /\ Len(batches[2].rows) = 2
    /\ batches[2].upto > batches[1].upto

\* how often a Get result holds (token, document name, position)
GotCount(got, token, doc, pos) ==
    IF token \in DOMAIN got
    THEN LET srcs == KeysNamed(got[token], doc)
             RECURSIVE Sum(_)
             Sum(S) == IF S = {} THEN 0
                       ELSE LET x == CHOOSE y \in S : TRUE
                            IN  CountIn(got[token][x], pos) + Sum(S \ {x})
         IN  Sum(srcs)
    ELSE 0

\* C15: what Get returns is what the backing store holds for the requested
\* tokens at that time; occurrences still in the flush buffer are not in it.
C15_GetSeesOnlyTheStore ==
    [][(getCall.at = "idle" /\ getCall'.at = "done" /\ ~getCall'.err) =>
          \A token \in AddTokens, doc \in DocNames, pos \in Positions :
              GotCount(getCall'.got, token, doc, pos) =
                  IF token \in Range(getCall'.tokens) THEN StoredCount(token, doc, pos) ELSE 0]_vars

\* Get ran while an occurrence of a requested token was waiting in the buffer
C15_Witness ==
    /\ getCall.at = "done"
    /\ ~getCall.err
    /\ \E j \in DOMAIN getCall.buffered :
          /\ pgTokens[getCall.buffered[j].token_id] = "appl"
          /\ "appl" \notin DOMAIN getCall.got


(***************************************************************************)
(* Properties of the pipeline's shutdown and of the listener.              *)
(***************************************************************************)
\* the values the listener has passed to engine.Add, in call order
Passed == [j \in DOMAIN engineLog |-> engineLog[j].t]

\* the listener is gone: its loop ended, or the process was aborted
ListenerGone == lPc = "exited" \/ panicked

\* C16: once chanIn is closed the listener ends only after it has passed
\* every value sent before the close to engine.Add, in send order.
C16_DrainedBeforeExit ==
    (closed /\ ListenerGone) => Passed = sent

\* the same when the listener leaves its loop by itself
DrainedOnLoopExit ==
    lPc = "exited" => (closed /\ Passed = sent /\ queue = <<>> /\ inAdd = <<>>)

\* the listener takes its steps
SpecPipelineFair ==
    SpecPipeline /\ WF_vars(Receive) /\ WF_vars(EngineAdd) /\ WF_vars(ListenExit)

\* after the close the listener's loop ends, unless the process is aborted
ExitsAfterClose == closed ~> ListenerGone

\* C17: an AddSource call that sends after chanIn was closed returns a
\* "pipeline closed" error, and the process is not aborted.
C17_SubmitAfterCloseFails ==
    \A p \in late : ret[p] = "pipeline closed" /\ ~panicked

\* C19: the listener passes every value to engine.Add in send order whatever
\* the earlier calls returned, and leaves its loop only when chanIn is closed.
C19_ListenerSurvivesErrors ==
    /\ Len(engineLog) <= Len(sent)
    /\ \A j \in DOMAIN engineLog : engineLog[j].t = sent[j]
    /\ lPc = "exited" => closed
    /\ (lPc = "run" /\ ~panicked /\ inAdd = <<>> /\ queue = <<>>) => Len(engineLog) = Len(sent)

\* a call that failed, and the next value passed all the same
C19_Witness ==
    /\ Len(engineLog) = 2
    /\ engineLog[1].err
    /\ ~engineLog[2].err
    /\ ~closed


(***************************************************************************)
(* Properties of Search's error handling and of the normalization.         *)
(***************************************************************************)
\* C18: when engine.Get fails, Search returns the error and no results and
\* does not rank; when Get finds nothing, Search returns no results and no
\* error.
C18_GetErrorPropagated ==
    /\ fPc = "got" => (~fGot.err /\ DOMAIN fGot.results # {})
    /\ (fPc = "done" /\ fGot.err) => fResult = [results |-> NoResults, err |-> TRUE]
    /\ (fPc = "done" /\ ~fGot.err /\ DOMAIN fGot.results = {}) =>
          fResult = [results |-> NoResults, err |-> FALSE]

C18_Witness ==
    /\ fPc = "done"
    /\ fGot.err
    /\ fTokens # <<>>
    /\ pgOccurrences # EmptyMap


\* the tokens AddSource sent for its document
IngestedTokens == {sent[j].token : j \in DOMAIN sent}

\* C20: a word gives the same tokens as the text of a document and as a
\* query.
C20_SameNormalization ==
    (pc["p1"] = "done" /\ fPc # "idle" /\ fQuery = text["p1"]) =>
        Range(fTokens) = IngestedTokens

\* the same for the words without a non-letter inside
SameNormalizationOfPlainWords ==
    (pc["p1"] = "done" /\ fPc # "idle" /\ fQuery = text["p1"] /\ fQuery # <<"wi-fi">>) =>
        Range(fTokens) = IngestedTokens

(***************************************************************************)
(* Properties of the positions AddSource assigns.                          *)
(***************************************************************************)
\* C21: the tokens one AddSource call has submitted are the kept tokens of the
\* words it has scanned, and the j-th of them carries position j - 1: a stop
\* word uses up no position and the positions of a document are 0..n-1.
C21_PositionIsOrdinalOfKept ==
    \A p \in Producers :
        LET s == ByProducer(sent, p)
        IN  /\ pc[p] # "idle" => TokensOf(s) = RetainedTokens(SubSeq(text[p], 1, idx[p] - 1))
            /\ \A j \in 1..Len(s) : s[j].position = j - 1

\* a document that starts with a stop word has been scanned to its end, and
\* the token after the stop word was submitted
C21_Witness ==
    \E p \in Producers :
        /\ pc[p] = "done"
        /\ text[p] = <<"the", "apple">>
        /\ Len(ByProducer(sent, p)) = 1

\* C22 as stated: the counter has advanced once per scanned word, so that a
\* token's position is its raw word offset.
C22_PositionCountsScannedWords ==
    \A p \in Producers :
        /\ pc[p] # "idle" => position[p] = idx[p] - 1
        /\ \A j \in 1..Len(sent) :
              sent[j].by = p =>
                  \E w \in 1..Len(text[p]) :
                      /\ sent[j].position = w - 1
                      /\ prepare(text[p][w]) = sent[j].token

\* C22, amended: the counter has advanced once per kept word only; it is the
\* number of words scanned so far that are not stop words.
C22_PositionCountsKeptWords ==
    \A p \in Producers :
        pc[p] # "idle" =>
            position[p] = Len(SelectSeq(SubSeq(text[p], 1, idx[p] - 1),
                                        LAMBDA w : ~IsStopWord(prepare(w))))

\* a call that has scanned two words and counted one
C22_Witness ==
    \E p \in Producers :
        /\ pc[p] = "scan"
        /\ idx[p] = 3
        /\ position[p] = 1

(***************************************************************************)
(* Queries that repeat a token.                                            *)
(***************************************************************************)
\* the tokens of a list, each kept at its first place only
RECURSIVE Distinct(_)
Distinct(s) ==
    IF s = <<>> THEN <<>>
    ELSE LET rest == Distinct(SubSeq(s, 1, Len(s) - 1))
         IN  IF s[Len(s)] \in Range(rest) THEN rest ELSE Append(rest, s[Len(s)])

\* the result lists Search can return for a token list when Get succeeds
SearchResultsOf(tokens) ==
    UNION {IF ReturnsEarly([results |-> got, err |-> FALSE]) THEN {NoResults}
           ELSE ScoreByCount(TallyTokens(EmptyMap, got, DOMAIN got), tokens) :
           got \in DbGet(tokens)}

\* C23: what Search returns for a query is a result of the query that holds each
\* of its retained tokens once: the same documents with the same scores.
C23_RepeatedTokenCountsOnce ==
    Returned => fResult.results \in SearchResultsOf(Distinct(fTokens))

(***************************************************************************)
(* Documents with a word that has no letter.                               *)
(***************************************************************************)
\* words of such documents
DigitWords == {"123", "apple", "the"}

DigitTexts == UNION {[1..n -> DigitWords] : n \in 1..MaxWords}

\* AddSource on one of these documents
AddSourceDigits(p) == AddSourceOf(p, DigitTexts)

\* one AddSource call, the listener and add
NextDigits ==
    \/ AddSourceDigits("p1")
    \/ SkipStopWord("p1")
    \/ Send("p1")
    \/ Return("p1")
    \/ \E k \in DOMAIN inAdd : AddLock(k)
    \/ \E k \in DOMAIN inAdd : AddRegister(k)
    \/ \E k \in DOMAIN inAdd : AddAppend(k)

SpecDigits == Init /\ [][NextDigits]_vars

\* C24: a word that is empty after the trim is not submitted, uses up no
\* position, and the empty token is not stored.
C24_EmptyTokenDropped ==
    /\ \A j \in DOMAIN sent : sent[j].token # ""
    /\ "" \notin DOMAIN Index
    /\ pc["p1"] # "idle" =>
          position["p1"] = Len(SelectSeq(SubSeq(text["p1"], 1, idx["p1"] - 1),
                                         LAMBDA w : ~IsStopWord(prepare(w)) /\ prepare(w) # ""))

(***************************************************************************)
(* The build command: one goroutine per file of the sources directory.     *)
(***************************************************************************)
\* what the files of the directory can hold
BuildTexts == {<<"apple">>, <<"the", "banana,">>}

\* the file each goroutine is started with: filepath.Join(sourcesDir, file.Name())
FileOf(p) == IF p = "p1" THEN "file1" ELSE "file2"

\* files, err := ioutil.ReadDir(sourcesDir); if err != nil { return err }
BuildReadDirFails ==
    /\ bPc = "start"
    /\ bPc' = "returned"
    /\ bRet' = "err"
    /\ UNCHANGED <<bLog, flPc, pipeVars, memVars, searchVars, encodeVars, facadeVars, dbVars, shutVars>>

\* i := index.NewIndex(engine, nil); for _, file := range files { wg.Add(1); go func ... }
BuildSpawn ==
    /\ bPc = "start"
    /\ name' = [p \in Producers |-> FileOf(p)]
    /\ text' \in [Producers -> BuildTexts]
    /\ pc' = [p \in Producers |-> "open"]
    /\ bPc' = "wait"
    /\ UNCHANGED <<idx, position, inAdd, sent, written, bRet, bLog, flPc>>
    /\ UNCHANGED <<memVars, searchVars, encodeVars, facadeVars, dbVars, shutVars>>

\* a build that gives up at the first file it cannot read
AbortOnReadError(pcs, p) == [q \in Producers |-> "done"]

\* the goroutine of the file logs the error and ends (defer wg.Done()); the
\* other goroutines are not touched
AfterReadError(pcs, p) == [pcs EXCEPT ![p] = "done"]

\* readFile: os.Open(name) fails; log.Error()...Msgf("cannot read file %s")
ReadFileFails(p) ==
    /\ bPc = "wait"
    /\ pc[p] = "open"
    /\ pc' = AfterReadError(pc, p)
    /\ ret' = [ret EXCEPT ![p] = "err"]
    /\ bLog' = bLog \cup {p}
    /\ UNCHANGED <<name, text, idx, position, inAdd, sent, written, bPc, bRet, flPc>>
    /\ UNCHANGED <<chanCap, queue, closed, late, lPc, panicked, engineLog>>
    /\ UNCHANGED <<memVars, searchVars, encodeVars, facadeVars, dbVars>>

\* readFile: os.Open(name) succeeds; return i.AddSource(name, input)
ReadFileOpens(p) ==
    /\ bPc = "wait"
    /\ pc[p] = "open"
    /\ pc' = [pc EXCEPT ![p] = "scan"]
    /\ idx' = [idx EXCEPT ![p] = 1]
    /\ position' = [position EXCEPT ![p] = 0]
    /\ UNCHANGED <<name, text, inAdd, sent, written, buildVars, flPc>>
    /\ UNCHANGED <<memVars, searchVars, encodeVars, facadeVars, dbVars, shutVars>>

\* wg.Wait(); return nil
BuildReturn ==
    /\ bPc = "wait"
    /\ \A p \in Producers : pc[p] = "done"
    /\ bPc' = "returned"
    /\ bRet' = "nil"
    /\ UNCHANGED <<bLog, flPc, pipeVars, memVars, searchVars, encodeVars, facadeVars, dbVars, shutVars>>

NextBuild ==
    \/ BuildReadDirFails
    \/ BuildSpawn
    \/ \E p \in Producers : ReadFileFails(p)
    \/ \E p \in Producers : ReadFileOpens(p)
    \/ \E p \in Producers : SkipStopWord(p)
    \/ \E p \in Producers : Send(p)
    \/ \E p \in Producers : Return(p)
    \/ EngineAdd
    \/ BuildReturn

SpecBuild == Init /\ [][NextBuild]_vars

\* C25: when build has started its goroutines and returned, it returned nil,
\* whatever files could not be read; each failure was logged, and every file
\* that could be opened has been scanned to its end with all its kept tokens
\* submitted.
C25_ReadFailureDoesNotAbort ==
    (bPc = "returned" /\ \E p \in Producers : pc[p] # "idle") =>
        /\ bRet = "nil"
        /\ \A p \in Producers : (ret[p] = "err") <=> (p \in bLog)
        /\ \A p \in Producers \ bLog :
              /\ ret[p] = "nil"
              /\ TokensOf(ByProducer(sent, p)) = RetainedTokens(text[p])

\* build has returned after one file could not be read and the other was
\* ingested
C25_Witness ==
    /\ bPc = "returned"
    /\ bLog = {"p1"}
    /\ Len(ByProducer(sent, "p2")) = 1

(***************************************************************************)
(* The tally Search hands to the ranking function.                         *)
(***************************************************************************)
\* the tokens of the Get result whose postings hold the document
TokensHolding(got, doc) == {t \in DOMAIN got : KeysNamed(got[t], doc) # {}}

\* Search has tallied a Get result and called the ranking function
Ranked == fPc = "done" /\ ~ReturnsEarly(fGot)

\* C26: the tally has one item for each document of the Get result; its count
\* is the number of returned tokens whose postings hold the document and its
\* occurrences map each of these tokens to the positions Get returned for it;
\* the token list holds no stop word.
C26_TallyOfGetResult ==
    /\ Ranked =>
          \A doc \in DocNames :
              LET toks == TokensHolding(fGot.results, doc)
                  items == KeysNamed(fItems, doc)
              IN  /\ toks = {} => items = {}
                  /\ toks # {} =>
                        /\ Cardinality(items) = 1
                        /\ \A src \in items :
                              /\ fItems[src].count = Cardinality(toks)
                              /\ DOMAIN fItems[src].occurrences = toks
                              /\ \A t \in toks :
                                    fItems[src].occurrences[t] = fGot.results[t][src]
    /\ fPc # "idle" => \A j \in DOMAIN fTokens : ~IsStopWord(fTokens[j])

\* a query of two tokens was ranked, and one document holds both tokens, one
\* of them twice
C26_Witness ==
    /\ Ranked
    /\ \E src \in DOMAIN fItems :
          /\ fItems[src].count = 2
          /\ \E t \in DOMAIN fItems[src].occurrences : Len(fItems[src].occurrences[t]) = 2

\* a query with a stop word was ranked
C26_StopWordQueryRanked ==
    /\ Ranked
    /\ "the" \in Range(fQuery)

(***************************************************************************)
(* Properties of the caches of the PostgreSQL engine.                      *)
(***************************************************************************)
\* the steps of Add at which getToken has returned a token
PastGetToken == {"docCache", "docSelect", "docInsert", "send"}

\* C27: once getToken (getDocument) has returned for a value, whether from the
\* cache, the store or an insert, the value is in the cache, so that resolving
\* it again does not query the store.
C27_ResolvedValueIsCached ==
    \A c \in DbCallers :
        /\ dbCall[c].at \in PastGetToken => dbCall[c].token \in DOMAIN tokensCache
        /\ dbCall[c].at = "send" => dbCall[c].name \in DOMAIN documentsCache

\* every cache entry is the id of a row that holds the entry's key
CacheEntriesAreRows ==
    /\ \A t \in DOMAIN tokensCache :
          tokensCache[t] \in DOMAIN pgTokens /\ pgTokens[tokensCache[t]] = t
    /\ \A d \in DOMAIN documentsCache :
          documentsCache[d] \in DOMAIN pgDocuments /\ pgDocuments[documentsCache[d]] = d

\* C28: each cache entry is the id of a row of its table with the entry's key;
\* a step changes a cache only together with the insert of the row the new
\* entry names, so a failed insert leaves the cache as it was.
C28_CacheFollowsInsert ==
    [][/\ CacheEntriesAreRows'
       /\ tokensCache' # tokensCache =>
             \E t \in AddTokens :
                 /\ pgTokens' = Append(pgTokens, t)
                 /\ tokensCache' = Put(tokensCache, t, Len(pgTokens'))
       /\ documentsCache' # documentsCache =>
             \E d \in DocNames :
                 /\ pgDocuments' = Append(pgDocuments, d)
                 /\ documentsCache' = Put(documentsCache, d, Len(pgDocuments'))]_vars

\* both caches hold an entry written after an insert, and a call of Add has
\* returned with an error
C28_Witness ==
    /\ DOMAIN tokensCache # {}
    /\ DOMAIN documentsCache # {}
    /\ \E c \in DbCallers : dbCall[c].n > 0 /\ dbCall[c].at = "idle"
    /\ Len(addLog) = 0

(***************************************************************************)
(* How add changes the in-memory index.                                    *)
(***************************************************************************)
IsPrefix(a, b) == Len(a) <= Len(b) /\ SubSeq(b, 1, Len(a)) = a

\* the (token, document) pairs of the calls of add in progress
PairsInAdd == {<<inAdd[k].t.token, inAdd[k].t.source.Name>> : k \in DOMAIN inAdd}

\* C29: across every step the position list of each (token, document) pair is
\* a prefix of its new list, no token is removed, and the only list that
\* changes is the one of the pair the running add was called with.
C29_PositionListsOnlyGrow ==
    [][LET toks == DOMAIN Index \cup DOMAIN Index'
           changed == {pair \in toks \X DocNames :
                          PositionsOf(Index', pair[1], pair[2]) # PositionsOf(Index, pair[1], pair[2])}
       IN  /\ DOMAIN Index \subseteq DOMAIN Index'
           /\ \A t \in toks, d \in DocNames :
                 IsPrefix(PositionsOf(Index, t, d), PositionsOf(Index', t, d))
           /\ Cardinality(changed) <= 1
           /\ changed \subseteq PairsInAdd]_vars

\* a pair has two positions while another pair has one
C29_Witness ==
    \E t1, t2 \in DOMAIN Index : \E d1, d2 \in DocNames :
        /\ <<t1, d1>> # <<t2, d2>>
        /\ Len(PositionsOf(Index, t1, d1)) = 2
        /\ Len(PositionsOf(Index, t2, d2)) = 1

\* C30: a registry entry present before a step is present after it, with the
\* same Source held at the same address; an entry appears only in a call of
\* add with its name, and every document add has written for is registered.
C30_SourceEntryIsPermanent ==
    [][/\ \A n \in DOMAIN Sources :
             /\ n \in DOMAIN Sources'
             /\ Sources'[n] = Sources[n]
             /\ srcAddr'[n] = srcAddr[n]
       /\ \A n \in DOMAIN Sources' \ DOMAIN Sources :
             /\ \E k \in DOMAIN inAdd : inAdd[k].t.source.Name = n
             /\ Sources'[n] = [Name |-> n]
       /\ DOMAIN srcAddr' = DOMAIN Sources'
       /\ \A j \in DOMAIN written' : written'[j].source.Name \in DOMAIN Sources']_vars

\* add has run three times for one document, whose entry is the one the first
\* call made
C30_Witness ==
    /\ Len(written) = 3
    /\ \A j \in DOMAIN written : written[j].source.Name = written[1].source.Name
    /\ srcAddr[written[1].source.Name] = 1

(***************************************************************************)
(* The file build: build over the in-memory engine, then engine.Encode.    *)
(***************************************************************************)
\* output, err := os.Create(indexFile); if err != nil { return fmt.Errorf(...) }
BuildFileCreateFails ==
    /\ bPc = "returned"
    /\ bRet = "nil"
    /\ ePc = "idle"
    /\ bPc' = "exited"
    /\ bRet' = "err"
    /\ UNCHANGED <<bLog, flPc, pipeVars, memVars, searchVars, encodeVars, facadeVars, dbVars, shutVars>>

\* if err := build(c, engine); err != nil { return err } ... engine.Encode(encoder)
BuildFileEncode ==
    /\ bPc = "returned"
    /\ bRet = "nil"
    /\ Encode

\* build with its goroutines, the listener calling the engine's Add, and the
\* Encode that follows the return of build
NextBuildFile ==
    \/ BuildReadDirFails
    \/ BuildSpawn
    \/ \E p \in Producers : ReadFileFails(p)
    \/ \E p \in Producers : ReadFileOpens(p)
    \/ \E p \in Producers : SkipStopWord(p)
    \/ \E p \in Producers : Send(p)
    \/ \E p \in Producers : Return(p)
    \/ \E k \in DOMAIN inAdd : AddLock(k)
    \/ \E k \in DOMAIN inAdd : AddRegister(k)
    \/ \E k \in DOMAIN inAdd : AddAppend(k)
    \/ BuildReturn
    \/ BuildFileCreateFails
    \/ BuildFileEncode
    \/ EncodeIndex
    \/ EncodeSources

SpecBuildFile == Init /\ [][NextBuildFile]_vars

\* C31: when Encode has taken its lock, the index holds every occurrence the
\* AddSource calls have submitted: no call of Add is pending and the snapshot
\* has as many positions for each (token, document) as were sent.
C31_EncodeSeesEverySubmission ==
    ePc # "idle" =>
        /\ inAdd = <<>>
        /\ \A j \in DOMAIN sent :
              Len(PositionsOf(encAt.Index, sent[j].token, sent[j].source.Name)) =
                  Len(PositionsIn(sent, sent[j].token, sent[j].source.Name))

(***************************************************************************)
(* The database build: build over DbIndex, then the deferred Close.        *)
(***************************************************************************)
\* buildDb: build has returned (every AddSource call has returned and the
\* listener is not inside engine.Add); defer engine.Close(); the command ends
BuildDbClose ==
    /\ bPc = "start"
    /\ dbCall["c1"].at = "idle"
    /\ bPc' = "closed"
    /\ bRet' = "nil"
    /\ UNCHANGED <<bLog, flPc, pipeVars, memVars, searchVars, encodeVars, facadeVars, dbVars, shutVars>>

\* the listener's calls of DbIndex.Add, the flush goroutine and the end of the
\* command
NextBuildDb ==
    \/ bPc # "closed" /\ DbAdd("c1")
    \/ bPc # "closed" /\ TokenCache("c1")
    \/ bPc # "closed" /\ TokenSelect("c1")
    \/ bPc # "closed" /\ TokenInsert("c1")
    \/ bPc # "closed" /\ DocumentCache("c1")
    \/ bPc # "closed" /\ DocumentSelect("c1")
    \/ bPc # "closed" /\ DocumentInsert("c1")
    \/ bPc # "closed" /\ AddSend("c1")
    \/ bPc # "closed" /\ FlushTick
    \/ BuildDbClose

SpecBuildDb == InitDbIndex /\ [][NextBuildDb]_vars

\* the rows of the bulk inserts that succeeded, in insert order
RECURSIVE InsertedRows(_)
InsertedRows(bs) ==
    IF bs = <<>> THEN <<>>
    ELSE InsertedRows(SubSeq(bs, 1, Len(bs) - 1))
             \o (IF bs[Len(bs)].ok THEN bs[Len(bs)].rows ELSE <<>>)

\* C32: when the engine has been closed and no bulk insert has failed, every
\* occurrence Add accepted is in the store and none is left in the buffer.
C32_FlushedBeforeClose ==
    (bPc = "closed" /\ \A j \in DOMAIN batches : batches[j].ok) =>
        /\ insertList = <<>>
        /\ Len(InsertedRows(batches)) = Len(addLog)

(***************************************************************************)
(* What Add hands to flush.                                                *)
(***************************************************************************)
\* the occurrences of the calls of Add that returned nil, in the order of
\* their sends on insertC
Accepted == [j \in 1..Len(addLog) |-> addLog[j].occurrence]

\* C33: the rows of the successful bulk inserts followed by the rows flush
\* still buffers are the occurrences of the calls of Add that returned nil,
\* each once and in the order of the calls; so no occurrence is in two
\* successful bulk inserts.
C33_AcceptedOnceInOrder == InsertedRows(batches) \o insertList = Accepted

\* a bulk insert failed, the next one stored the first occurrence, and a
\* second occurrence is buffered
C33_Witness ==
    /\ Len(addLog) = 2
    /\ Len(insertList) = 1
    /\ Len(batches) = 2
    /\ ~batches[1].ok
    /\ batches[2].ok

(***************************************************************************)
(* Errors of the resolution in Add.                                        *)
(***************************************************************************)
\* the steps of Add at which a query of the store is outstanding
InResolution == {"tokenSelect", "tokenInsert", "docSelect", "docInsert"}

SourcesNamed(got, doc) == UNION {KeysNamed(got[t], doc) : t \in DOMAIN got}

\* C35: a Get result uses one *Source for a document name under all its
\* tokens, and the tally Search makes of it has, for a document found under k
\* tokens, that one key with count k.
C35_OneSourcePerDocument ==
    /\ GetReturned => \A doc \in DocNames : Cardinality(SourcesNamed(fGot.results, doc)) <= 1
    /\ Ranked =>
          \A doc \in DocNames :
              \A src \in SourcesNamed(fGot.results, doc) :
                  /\ KeysNamed(fItems, doc) = {src}
                  /\ fItems[src].count =
                        Cardinality({t \in DOMAIN fGot.results : src \in DOMAIN fGot.results[t]})

\* Get returned two tokens that both hold file1, and Search tallied it
C35_Witness ==
    /\ Ranked
    /\ Cardinality(TokensHolding(fGot.results, "file1")) = 2
    /\ \E src \in KeysNamed(fItems, "file1") : fItems[src].count = 2

(***************************************************************************)
(* Postings and the Sources registry of the in-memory index.               *)
(***************************************************************************)
\* C36: every document name that is a key of the postings of a token is a key
\* of Sources, with a Source of that name, and the items of a Search are never
\* keyed by the nil Source.
C36_PostingsAreRegistered ==
    /\ \A t \in DOMAIN Index : \A d \in DOMAIN Index[t] :
          d \in DOMAIN Sources /\ Sources[d].Name = d
    /\ NilSource \notin DOMAIN sItems

\* a Search has tallied the postings of two tokens of a document and returned
\* it
C36_Witness ==
    /\ sPc = "done"
    /\ Len(sTokens) = 2
    /\ \E src \in DOMAIN sItems : src \in Range(Sources) /\ sItems[src].count = 2
    /\ Len(sResult) = 1

NoTokenNoResultInMemory ==
    (sPc = "done" /\ QueryTokens(sRaw) = <<>>) => sResult = NoResults

(***************************************************************************)
(* The whole chain: AddSource -> chanIn -> listen -> DbIndex.Add -> flush. *)
(***************************************************************************)
\* documents of one or two kept words, the first with a stop word
ChainTexts == {<<"the", "banana,">>, <<"apple", "banana,">>}

\* AddSource on a short document, one call per file as build makes them
AddSourceShort(p) ==
    /\ AddSourceOf(p, ChainTexts)
    /\ name'[p] = FileOf(p)

\* listen: i.engine.Add(t.token, t.position, t.source) is called with the
\* value received from chanIn
ListenCallsAdd ==
    /\ lPc = "run"
    /\ inAdd # <<>>
    /\ inAdd[1].at = "lock"
    /\ dbCall["c1"].at = "idle"
    /\ dbCall' = [dbCall EXCEPT !["c1"] =
                     [at |-> "tokenCache", n |-> dbCall["c1"].n, err |-> FALSE,
                      token |-> inAdd[1].t.token, name |-> inAdd[1].t.source.Name,
                      position |-> inAdd[1].t.position, tkn |-> 0, doc |-> 0]]
    /\ inAdd' = [inAdd EXCEPT ![1].at = "engine"]
    /\ UNCHANGED <<tokensCache, documentsCache, insertList, getCall, created, addLog, batches>>
    /\ UNCHANGED <<pc, name, text, idx, position, sent, written>>
    /\ UNCHANGED <<memVars, searchVars, encodeVars, buildVars, flPc, facadeVars, shutVars>>

\* listen: engine.Add has returned (its error is dropped); back to the range
\* over chanIn
ListenAddReturned ==
    /\ lPc = "run"
    /\ inAdd # <<>>
    /\ inAdd[1].at = "engine"
    /\ dbCall["c1"].at = "idle"
    /\ engineLog' = Append(engineLog, [t |-> inAdd[1].t, err |-> dbCall["c1"].err])
    /\ inAdd' = <<>>
    /\ UNCHANGED <<pc, name, text, idx, position, sent, written>>
    /\ UNCHANGED <<chanCap, queue, closed, ret, late, lPc, panicked>>
    /\ UNCHANGED <<memVars, searchVars, encodeVars, buildVars, flPc, facadeVars, dbVars>>

\* flush: case <-ticker.C with a non-empty insertList: the bulk insert starts
FlushBegin ==
    /\ flPc = "select"
    /\ insertList # <<>>
    /\ Len(batches) < MaxTicks
    /\ flPc' = "insert"
    /\ UNCHANGED <<pipeVars, memVars, searchVars, encodeVars, buildVars, facadeVars, dbVars, shutVars>>

\* a flush goroutine that ends when a bulk insert fails
FlushStopsOnError(ok) == IF ok THEN "select" ELSE "stopped"

\* continue (after an error) or the end of the case: the for loop is back at
\* its select
FlushAfterInsert(ok) == "select"

\* flush: the bulk insert returns, with an error or without
FlushEnd ==
    /\ flPc = "insert"
    /\ \E ok \in BOOLEAN :
          /\ pgOccurrences' = IF ok THEN Inserted(pgOccurrences, insertList) ELSE pgOccurrences
          /\ insertList' = AfterInsert(insertList, ok)
          /\ batches' = Append(batches, [rows |-> insertList, ok |-> ok, upto |-> Len(addLog)])
          /\ flPc' = FlushAfterInsert(ok)
    /\ UNCHANGED <<tokensCache, documentsCache, dbCall, getCall, created, addLog>>
    /\ UNCHANGED <<pgTokens, pgDocuments, fPc, fQuery, fTokens, fGot, fItems, fResult>>
    /\ UNCHANGED <<pipeVars, memVars, searchVars, encodeVars, buildVars, shutVars>>

NextChain ==
    \/ \E p \in Producers : AddSourceShort(p)
    \/ \E p \in Producers : SkipStopWord(p)
    \/ \E p \in Producers : Send(p)
    \/ \E p \in Producers : Return(p)
    \/ ListenCallsAdd
    \/ TokenCache("c1")
    \/ TokenSelect("c1")
    \/ TokenInsert("c1")
    \/ DocumentCache("c1")
    \/ DocumentSelect("c1")
    \/ DocumentInsert("c1")
    \/ AddSend("c1")
    \/ ListenAddReturned
    \/ FlushBegin
    \/ FlushEnd

\* every goroutine that can take a step takes one; a sender blocked on
\* a channel is served when the receiver comes back to it often enough
\* (channels queue their waiting senders); the ticker and the callers of
\* AddSource are not required to act
FairChain ==
    /\ \A p \in Producers : WF_vars(SkipStopWord(p)) /\ SF_vars(Send(p)) /\ WF_vars(Return(p))
    /\ WF_vars(ListenCallsAdd)
    /\ WF_vars(TokenCache("c1")) /\ WF_vars(TokenSelect("c1")) /\ WF_vars(TokenInsert("c1"))
    /\ WF_vars(DocumentCache("c1")) /\ WF_vars(DocumentSelect("c1"))
    /\ WF_vars(DocumentInsert("c1"))
    /\ SF_vars(AddSend("c1"))
    /\ WF_vars(ListenAddReturned)
    /\ WF_vars(FlushEnd)

SpecChain == InitDbIndex /\ [][NextChain]_vars /\ FairChain

\* C38: every AddSource call that has started returns.
C38_AddSourceTerminates ==
    \A p \in Producers : (pc[p] = "scan") ~> (pc[p] = "done")

\* both AddSource calls have returned, their tokens went through Add, and a
\* bulk insert has failed on the way
C38_Witness ==
    /\ \A p \in Producers : pc[p] = "done"
    /\ Len(engineLog) >= 3
    /\ \E j \in DOMAIN batches : ~batches[j].ok

====
